---------------------------- MODULE Spec2Model ----------------------------
(***************************************************************************)
(* Entex Adventure Vision emulator (src/adventure_vision.c).               *)
(*                                                                         *)
(* State machine of the COP411L behavioural sound engine, the port-2       *)
(* nibble protocol that feeds it, the audio lock shared by the frame       *)
(* driver (producer) and the audio callback (consumer), and the i8048      *)
(* interpreter's interrupt logic.                                          *)
(*                                                                         *)
(* Conventions.  C floats are held as scaled integers: frequencies in      *)
(* centi-Hz (320.92f is 32092), volumes in thousandths (0.4f is 400).      *)
(* The phase registers (phase_acc, phase_inc) only decide the sign of an    *)
(* output sample and the samples at which the noise source is clocked; no  *)
(* sequencer decision reads them, and they are not part of the sound       *)
(* state below.  The noise shift register lfsr is.                         *)
(***************************************************************************)
EXTENDS Integers, Sequences, FiniteSets, TLC

VARIABLES
    snd,        \* COP411L av->snd: control register, protocol, sequencer
    adev,       \* av->adev /= 0: an audio device is open
    lock,       \* owner of the SDL audio-device lock: "free", "prod", "cons"
    ppc,        \* producer position inside av_port_write / av_reset
    pval,       \* the value the producer is writing to port 2
    cpc,        \* consumer position inside the audio callback
    cpu,        \* I8048 registers and internal RAM
    rom,        \* ROM bytes of the interrupt handler at 0x007 (SpecCpu)
    file,       \* the savestate file save_state writes and load_state reads
    ini,        \* advision.ini, which config_save writes and config_load reads
    disp,       \* AVDisp av->disp: LED registers, column snapshot buffer
    frm,        \* the frame step: its position and locals, sync, prev_p2, config
    hist        \* history record kept for the properties (not program state)

vars == <<snd, adev, lock, ppc, pval, cpc, cpu, rom, file, ini, disp, frm, hist>>

(***************************************************************************)
(* Program constants.                                                      *)
(***************************************************************************)
AUDIO_RATE    == 44100
AUDIO_SAMPLES == 512
IRAM_SZ       == 64
IrqVector     == 7
MAX_SND_STEPS == 16
XRAM_SZ       == 1024
CYCLES_PER_FR == 48889
SW            == 150
DEF_T1_START  == 200
DEF_T1_END    == 400
DISP_OUTPUT_CYCLES == 2550
SH == 40
REWIND_FRAMES == 120
SAVE_MAGIC    == 1096167731
SAVE_VER      == 18

Byte   == 0..255
Nibble == 0..15

Min(a, b) == IF a < b THEN a ELSE b

(***************************************************************************)
(* COP411L: effect steps.                                                  *)
(***************************************************************************)
SndStep(f, nz, d, v) == [freq |-> f, noise |-> nz, dur_ms |-> d, volume |-> v]

ZeroStep == SndStep(0, FALSE, 0, 0)

\* cop411_note_freq[16], centi-Hz.
cop411_note_freq ==
    <<23923, 25303, 26853, 28604, 30248, 32092, 33738, 36049,
      38138, 40485, 42444, 45372, 47846, 50607, 53705, 57208>>

\* cop411_init: memset 0, then lfsr / seg volumes.
cop411_init ==
    [ctrl_loop |-> 0, ctrl_vol |-> 0, ctrl_fast |-> 0,
     proto_state |-> 0, proto_hi |-> 0,
     active |-> FALSE, is_noise |-> FALSE,
     force_loop |-> FALSE, force_no_loop |-> FALSE,
     command |-> 0,
     steps |-> [i \in 0..(MAX_SND_STEPS - 1) |-> ZeroStep],
     step_count |-> 0, cur_step |-> 0, step_samples_left |-> 0,
     cur_freq |-> 0,
     seg1_vol |-> 1000, seg2_vol |-> 500, cur_vol |-> 0,
     segment |-> 0, seg_samples_total |-> 0, seg_samples_left |-> 0,
     chain_cmd |-> 0, lfsr |-> 32767]

\* A plausible slip: the feedback bit is not put back into bit 14.
lfsr_clock_nofeedback(s) == [s EXCEPT !.lfsr = @ \div 2]

\* lfsr_clock: bit = (lfsr ^ (lfsr >> 1)) & 1; lfsr = (lfsr >> 1) |
\* (bit << 14), on the uint16_t register.
lfsr_clock(s) ==
    LET l    == s.lfsr
        bit  == (l + (l \div 2)) % 2
        sh   == l \div 2
        b14  == IF bit = 1 \/ (sh \div 16384) % 2 = 1 THEN 1 ELSE 0
    IN [s EXCEPT !.lfsr = (sh \div 32768) * 32768 + b14 * 16384
                          + (sh % 16384)]

\* cop411_update_ctrl_vol: ctrl_vol 0 low/low, 1 high/low, 2 and 3 high/high.
cop411_update_ctrl_vol(s) ==
    CASE s.ctrl_vol = 0 -> [s EXCEPT !.seg1_vol = 400,  !.seg2_vol = 400]
      [] s.ctrl_vol = 1 -> [s EXCEPT !.seg1_vol = 1000, !.seg2_vol = 400]
      [] OTHER          -> [s EXCEPT !.seg1_vol = 1000, !.seg2_vol = 1000]

\* (int)(ms * cop411_speed(snd)): spd is 0.5f when ctrl_fast, else 1.0f.
SpdMs(s, ms) == IF s.ctrl_fast /= 0 THEN ms \div 2 ELSE ms

\* (dur_ms * AUDIO_RATE) / 1000, raised to 1 when below 1.
StepSamples(dur_ms) ==
    LET n == (dur_ms * AUDIO_RATE) \div 1000 IN IF n < 1 THEN 1 ELSE n

\* The first nine assignments of cop411_build_effect.
BuildHead(s, cmd) ==
    [s EXCEPT !.command = cmd, !.active = TRUE, !.cur_step = 0,
              !.step_count = 0, !.chain_cmd = 0,
              !.force_loop = FALSE, !.force_no_loop = FALSE,
              !.segment = 0]

\* Number of steps each case of the switch writes.
EffectLen(cmd) ==
    CASE cmd = 1 -> 1
      [] cmd = 2 -> 8
      [] cmd = 3 -> 5
      [] cmd = 4 -> 8
      [] cmd = 5 -> 10
      [] cmd = 6 -> 12
      [] cmd = 7 -> 6
      [] cmd = 8 -> 6
      [] cmd = 9 -> 8
      [] cmd \in 10..13 -> 1
      [] OTHER -> 0

\* steps[i] as the switch case of cmd writes it (i < EffectLen(cmd)).
EffectStep(s, cmd, i) ==
    CASE cmd = 1 -> SndStep(80000, TRUE, SpdMs(s, 200), 800)
      [] cmd = 2 -> SndStep(120000 - i * 11250, FALSE, SpdMs(s, 25), 1000 - i * 80)
      [] cmd = 3 -> SndStep(<<100000, 80000, 60000, 40000, 25000>>[i + 1],
                            TRUE, SpdMs(s, 60), 1000 - i * 120)
      [] cmd = 4 -> SndStep(30000 + i * 11250, FALSE, SpdMs(s, 30), 700 + i * 40)
      [] cmd = 5 -> SndStep(20000 + i * 6000, TRUE, SpdMs(s, 40 + i * 8), 600 + i * 40)
      [] cmd = 6 -> SndStep(120000 - i * 7500, TRUE, SpdMs(s, 30 + i * 10), 1000 - i * 60)
      [] cmd = 7 -> SndStep(80000 - (i * 50000) \div 6, FALSE, SpdMs(s, 30), 900 - i * 100)
      [] cmd = 8 -> SndStep(40000 + (i * 80000) \div 6, FALSE, SpdMs(s, 12), 800)
      [] cmd = 9 -> SndStep(30000 + i * 7500, FALSE, SpdMs(s, 18), 850)
      [] OTHER   -> SndStep(30000 + (cmd - 10) * 10000, FALSE, SpdMs(s, 50), 500)

\* A plausible slip: case 6 leaves force_no_loop unset.
BuildSteps_noforce(s, cmd) ==
    [s EXCEPT
       !.step_count = EffectLen(cmd),
       !.steps = [i \in 0..(MAX_SND_STEPS - 1) |->
                    IF i < EffectLen(cmd) THEN EffectStep(s, cmd, i) ELSE s.steps[i]],
       !.force_loop = IF cmd = 1 THEN TRUE
                      ELSE IF cmd = 5 THEN s.ctrl_loop /= 0
                      ELSE s.force_loop,
       !.chain_cmd = IF cmd = 3 /\ s.ctrl_loop /= 0 THEN 2 ELSE s.chain_cmd]

\* The switch of cop411_build_effect for cmd in 1..13.
BuildSteps(s, cmd) ==
    [s EXCEPT
       !.step_count = EffectLen(cmd),
       !.steps = [i \in 0..(MAX_SND_STEPS - 1) |->
                    IF i < EffectLen(cmd) THEN EffectStep(s, cmd, i) ELSE s.steps[i]],
       !.force_loop = IF cmd = 1 THEN TRUE
                      ELSE IF cmd = 5 THEN s.ctrl_loop /= 0
                      ELSE s.force_loop,
       !.force_no_loop = IF cmd = 6 THEN TRUE ELSE s.force_no_loop,
       !.chain_cmd = IF cmd = 3 /\ s.ctrl_loop /= 0 THEN 2 ELSE s.chain_cmd]

\* Load steps[idx] into the playing registers.
LoadStep(s, idx) ==
    [s EXCEPT !.cur_freq = s.steps[idx].freq,
              !.is_noise = s.steps[idx].noise,
              !.cur_vol = s.steps[idx].volume,
              !.step_samples_left = StepSamples(s.steps[idx].dur_ms)]

\* "Start first step" at the end of cop411_build_effect.
StartFirstStep(s) == IF s.step_count > 0 THEN LoadStep(s, 0) ELSE s

cop411_build_effect(s, cmd) ==
    IF cmd \in 1..13
    THEN StartFirstStep(BuildSteps(BuildHead(s, cmd), cmd))
    ELSE [BuildHead(s, cmd) EXCEPT !.active = FALSE]

\* The first eight assignments of cop411_start_tone.
ToneHead(s) ==
    [s EXCEPT !.active = TRUE, !.is_noise = FALSE, !.command = 14,
              !.cur_step = 0, !.step_count = 0, !.chain_cmd = 0,
              !.force_loop = FALSE, !.force_no_loop = FALSE]

\* The rest of cop411_start_tone: frequency, segment 1, its volume and length.
ToneTail(s, note) ==
    LET t == cop411_update_ctrl_vol(s)
        total == ((IF s.ctrl_fast /= 0 THEN 46 ELSE 117) * AUDIO_RATE) \div 1000
    IN [t EXCEPT !.cur_freq = cop411_note_freq[(note % 16) + 1],
                 !.segment = 0, !.cur_vol = t.seg1_vol,
                 !.seg_samples_total = total, !.seg_samples_left = total]

\* cop411_start_tone(snd, note).
cop411_start_tone(s, note) == ToneTail(ToneHead(s), note)

\* The control-register assignments of cop411_command (cmd == 0).
CtrlBits(s, data) ==
    cop411_update_ctrl_vol([s EXCEPT !.ctrl_fast = data % 2,
                                     !.ctrl_vol  = (data \div 2) % 4,
                                     !.ctrl_loop = (data \div 8) % 2])

\* "Silence current sound".
Silence(s) == [s EXCEPT !.active = FALSE]

\* A plausible slip: the control command leaves the sound playing.
SetCtrl_playing(s, data) == CtrlBits(s, data)

\* The control-register branch of cop411_command (cmd == 0).
SetCtrl(s, data) == Silence(CtrlBits(s, data))

\* cop411_command(snd, cmd_byte).
cop411_command(s, cmd_byte) ==
    LET cmd  == (cmd_byte \div 16) % 16
        data == cmd_byte % 16
    IN CASE cmd = 0          -> SetCtrl(s, data)
         [] cmd \in {14, 15} -> cop411_start_tone(s, data)
         [] OTHER            -> cop411_build_effect(s, cmd)

\* cop411_command in two parts, for the interleavings of SpecConc: the
\* assignments up to and including the one of step_count (control register:
\* the three fields), and the rest.
CommandHead(s, cmd_byte) ==
    LET cmd  == (cmd_byte \div 16) % 16
        data == cmd_byte % 16
    IN CASE cmd = 0          -> CtrlBits(s, data)
         [] cmd \in {14, 15} -> ToneHead(s)
         [] OTHER            -> BuildHead(s, cmd)

CommandTail(s, cmd_byte) ==
    LET cmd  == (cmd_byte \div 16) % 16
        data == cmd_byte % 16
    IN CASE cmd = 0          -> Silence(s)
         [] cmd \in {14, 15} -> ToneTail(s, data)
         [] OTHER            -> StartFirstStep(BuildSteps(s, cmd))


(***************************************************************************)
(* COP411L: one sample (cop411_sample), sequencer part.                    *)
(***************************************************************************)
\* "Load new step" with its bounds check.
LoadCurStep(s) ==
    IF s.cur_step < 0 \/ s.cur_step >= MAX_SND_STEPS
    THEN [s EXCEPT !.active = FALSE]
    ELSE LoadStep(s, s.cur_step)

\* A plausible slip: should_loop reads the control register only.
ShouldLoop_ctrl(s) ==
    IF s.force_no_loop THEN FALSE
    ELSE s.ctrl_loop /= 0

\* should_loop of cop411_sample.
ShouldLoop(s) ==
    IF s.force_no_loop THEN FALSE
    ELSE IF s.force_loop THEN TRUE
    ELSE s.ctrl_loop /= 0

\* A plausible slip: every looping effect rewinds to step 0.
EffectFinished_rewind(s) ==
    IF s.chain_cmd /= 0 THEN cop411_build_effect(s, s.chain_cmd)
    ELSE IF ShouldLoop(s)
         THEN LoadCurStep([s EXCEPT !.cur_step = 0])
         ELSE [s EXCEPT !.active = FALSE]

\* The cursor has run past the last step ("Effect finished").
EffectFinished(s) ==
    IF s.chain_cmd /= 0 THEN cop411_build_effect(s, s.chain_cmd)
    ELSE IF ShouldLoop(s)
         THEN LoadCurStep([s EXCEPT !.cur_step =
                              IF s.command = 5 THEN s.step_count - 1 ELSE 0])
         ELSE [s EXCEPT !.active = FALSE]

\* Step-sequencer branch (step_count > 0).
StepAdvance(s) ==
    LET s1 == [s EXCEPT !.step_samples_left = @ - 1] IN
    IF s1.step_samples_left > 0 THEN s1
    ELSE LET s2 == [s1 EXCEPT !.cur_step = @ + 1] IN
         IF s2.cur_step >= s2.step_count THEN EffectFinished(s2)
         ELSE LoadCurStep(s2)

\* A plausible slip: the restart keeps the segment-2 volume.
ToneAdvance_vol(s) ==
    LET s1 == [s EXCEPT !.seg_samples_left = @ - 1] IN
    IF s1.seg_samples_left > 0 THEN s1
    ELSE IF s1.segment = 0
         THEN [s1 EXCEPT !.segment = 1, !.cur_vol = s1.seg2_vol,
                         !.seg_samples_left =
                            ((IF s1.ctrl_fast /= 0 THEN 104 ELSE 240) * AUDIO_RATE) \div 1000]
         ELSE IF s1.ctrl_loop /= 0
              THEN [s1 EXCEPT !.segment = 0,
                              !.seg_samples_left = s1.seg_samples_total]
              ELSE [s1 EXCEPT !.active = FALSE]

\* Pure-tone branch (step_count == 0): two segments.
ToneAdvance(s) ==
    LET s1 == [s EXCEPT !.seg_samples_left = @ - 1] IN
    IF s1.seg_samples_left > 0 THEN s1
    ELSE IF s1.segment = 0
         THEN [s1 EXCEPT !.segment = 1, !.cur_vol = s1.seg2_vol,
                         !.seg_samples_left =
                            ((IF s1.ctrl_fast /= 0 THEN 104 ELSE 240) * AUDIO_RATE) \div 1000]
         ELSE IF s1.ctrl_loop /= 0
              THEN [s1 EXCEPT !.segment = 0, !.cur_vol = s1.seg1_vol,
                              !.seg_samples_left = s1.seg_samples_total]
              ELSE [s1 EXCEPT !.active = FALSE]

cop411_sample(s) ==
    IF ~s.active THEN s
    ELSE IF s.step_count > 0 THEN StepAdvance(s)
    ELSE ToneAdvance(s)

\* k consecutive calls of cop411_sample none of which reaches the end of the
\* running step or segment (k < samples left): only the budget moves.
SkipSamples(s, k) ==
    IF s.step_count > 0
    THEN [s EXCEPT !.step_samples_left = @ - k]
    ELSE [s EXCEPT !.seg_samples_left = @ - k]

SamplesLeft(s) ==
    IF s.step_count > 0 THEN s.step_samples_left ELSE s.seg_samples_left

\* n calls of cop411_sample: <<state after, number of calls that found the
\* sound active>>.
RECURSIVE RunSamples(_, _, _)
RunSamples(s, n, played) ==
    IF n = 0 \/ ~s.active THEN <<s, played>>
    ELSE IF SamplesLeft(s) > 1
         THEN LET k == Min(n, SamplesLeft(s) - 1)
              IN RunSamples(SkipSamples(s, k), n - k, played + k)
         ELSE RunSamples(cop411_sample(s), n - 1, played + 1)

(***************************************************************************)
(* Port 2: the sound nibble protocol of av_port_write.                     *)
(***************************************************************************)
\* A plausible slip: the captured nibble is not shifted when 0x00 closes.
ProtoCmdByte_noshift(s, val) ==
    IF val = 0 THEN s.proto_hi
    ELSE ((s.proto_hi * 16) % 256) + ((val \div 16) % 16)

\* The command byte a write in proto_state 2 reconstructs.
ProtoCmdByte(s, val) ==
    IF val = 0 THEN (s.proto_hi * 16) % 256
    ELSE ((s.proto_hi * 16) % 256) + ((val \div 16) % 16)

\* Does this write call cop411_command?
ProtoDispatches(s, val) == s.proto_state = 2

\* The protocol assignments made outside the cop411_command call.
ProtoStep(s, val) ==
    CASE s.proto_state = 0 /\ val = 192 -> [s EXCEPT !.proto_state = 1, !.proto_hi = 0]
      [] s.proto_state = 1 -> [s EXCEPT !.proto_hi = (val \div 16) % 16, !.proto_state = 2]
      [] s.proto_state = 2 -> [s EXCEPT !.proto_state = IF val = 0 THEN 0 ELSE 3]
      [] s.proto_state = 3 /\ val = 0 -> [s EXCEPT !.proto_state = 0]
      [] OTHER -> s

\* A plausible slip: idle accepts any byte whose upper nibble is 0xC.
av_port_write_loose(s, val) ==
    LET t == IF s.proto_state = 0 /\ val \div 16 = 12 THEN 192 ELSE val IN
    IF ProtoDispatches(s, t)
    THEN [snd |-> ProtoStep(cop411_command(s, ProtoCmdByte(s, t)), t),
          cmd |-> ProtoCmdByte(s, t)]
    ELSE [snd |-> ProtoStep(s, t), cmd |-> -1]

\* av_port_write(av, 2, val), sound part, as one step: the state after, and
\* the byte handed to cop411_command (-1 when it is not called).
av_port_write(s, val) ==
    IF ProtoDispatches(s, val)
    THEN [snd |-> ProtoStep(cop411_command(s, ProtoCmdByte(s, val)), val),
          cmd |-> ProtoCmdByte(s, val)]
    ELSE [snd |-> ProtoStep(s, val), cmd |-> -1]

(***************************************************************************)
(* i8048 interpreter: interrupt and timer logic of i8048_exec.             *)
(***************************************************************************)
B2N(b) == IF b THEN 1 ELSE 0

\* External RAM as av_init and av_reset leave it: bank 0 zero, banks 1..3
\* filled with 0xFF.
XramInit == [a \in 0..(XRAM_SZ - 1) |-> IF a < 256 THEN 0 ELSE 255]

\* The I8048 registers and RAM as av_init leaves them (memset 0, then
\* P1 = 0xFB, P2 = 0xFF, t0 = true, xram banks 1..3 = 0xFF).
I8048Init ==
    [A |-> 0, PC |-> 0, PSW |-> 0, SP |-> 0,
     C |-> FALSE, AC |-> FALSE, F0 |-> FALSE, F1 |-> FALSE,
     BS |-> FALSE, MB |-> FALSE,
     t0 |-> TRUE, t1 |-> FALSE, cycles |-> 0,
     P1 |-> 251, P2 |-> 255, BUS |-> 0,
     xram |-> XramInit,
     timer |-> 0, timer_en |-> FALSE, counter_en |-> FALSE,
     timer_ovf |-> FALSE, tcnti_en |-> FALSE,
     irq_en |-> FALSE, irq_pend |-> FALSE, in_irq |-> FALSE,
     ei_delay |-> 0, tpre |-> 0,
     iram |-> [a \in 0..(IRAM_SZ - 1) |-> 0]]

bpsw(c) ==
    [c EXCEPT !.PSW = B2N(c.C) * 128 + B2N(c.AC) * 64 + B2N(c.F0) * 32
                      + B2N(c.BS) * 16 + (c.SP % 8)]

push8(c) ==
    LET a == (8 + c.SP * 2) % 256 IN
    [c EXCEPT !.iram = [@ EXCEPT ![a % IRAM_SZ] = c.PC % 256,
                                 ![(a + 1) % IRAM_SZ] =
                                     ((c.PC \div 256) % 16) + (c.PSW \div 16) * 16],
              !.SP = (c.SP + 1) % 8]

pop_pc(c) ==
    LET sp == (c.SP + 7) % 8
        a  == (8 + sp * 2) % 256
    IN [c EXCEPT !.SP = sp,
                 !.PC = c.iram[a % IRAM_SZ]
                        + (c.iram[(a + 1) % IRAM_SZ] % 16) * 256]

pop_pc_psw_noflags(c) ==
    LET sp  == (c.SP + 7) % 8
        a   == (8 + sp * 2) % 256
        hi  == c.iram[(a + 1) % IRAM_SZ]
    IN [c EXCEPT !.SP = sp,
                 !.PC = c.iram[a % IRAM_SZ] + (hi % 16) * 256,
                 !.PSW = (hi \div 16) * 16 + (c.PSW % 16)]

pop_pc_psw(c) ==
    LET sp  == (c.SP + 7) % 8
        a   == (8 + sp * 2) % 256
        hi  == c.iram[(a + 1) % IRAM_SZ]
        psw == (hi \div 16) * 16 + (c.PSW % 16)
    IN [c EXCEPT !.SP = sp,
                 !.PC = c.iram[a % IRAM_SZ] + (hi % 16) * 256,
                 !.PSW = psw,
                 !.C = (psw \div 128) % 2 = 1,
                 !.AC = (psw \div 64) % 2 = 1,
                 !.F0 = (psw \div 32) % 2 = 1,
                 !.BS = (psw \div 16) % 2 = 1]

\* Mutant: the fetch leaves PC unmasked.
ft_nowrap(c) == [c EXCEPT !.PC = c.PC + 1]

\* ft: the fetch moves PC as a 12-bit counter.
ft(c) == [c EXCEPT !.PC = (c.PC + 1) % 4096]

\* The byte is a CALL: 0x14, 0x34, ... 0xF4.
IsCall(op) == op % 32 = 20

\* The switch of i8048_exec, for the opcodes of the interrupt, timer, flag
\* and subroutine groups, MOV A,#n and ADD A,#n; arg is the byte after the opcode,
\* which the two-byte instructions fetch.  Any other byte here is the
\* default case (unknown opcode).
ExecOp(c, op, arg) ==
    CASE op = 0   -> c
      [] op = 35  -> [ft(c) EXCEPT !.A = arg]
      [] op = 3   -> [ft(c) EXCEPT !.AC = (c.A % 16) + (arg % 16) > 15,
                                   !.C = c.A + arg > 255,
                                   !.A = (c.A + arg) % 256]
      [] op = 151 -> [c EXCEPT !.C = FALSE]
      [] op = 167 -> [c EXCEPT !.C = ~c.C]
      [] op = 133 -> [c EXCEPT !.F0 = FALSE]
      [] op = 149 -> [c EXCEPT !.F0 = ~c.F0]
      [] op = 197 -> [c EXCEPT !.BS = FALSE]
      [] op = 213 -> [c EXCEPT !.BS = TRUE]
      [] op = 229 -> [c EXCEPT !.MB = FALSE]
      [] op = 245 -> [c EXCEPT !.MB = TRUE]
      [] IsCall(op) ->
             [push8(bpsw(ft(c))) EXCEPT
                 !.PC = (op \div 32) * 256 + arg + (IF c.MB THEN 2048 ELSE 0)]
      [] op = 131 -> pop_pc(c)
      [] op = 147 -> [pop_pc_psw(c) EXCEPT !.irq_en = TRUE, !.in_irq = FALSE]
      [] op = 5   -> [c EXCEPT !.irq_en = TRUE, !.ei_delay = 1]
      [] op = 21  -> [c EXCEPT !.irq_en = FALSE]
      [] op = 37  -> [c EXCEPT !.tcnti_en = TRUE]
      [] op = 53  -> [c EXCEPT !.tcnti_en = FALSE]
      [] op = 85  -> [c EXCEPT !.timer_en = TRUE, !.counter_en = FALSE, !.tpre = 0]
      [] op = 69  -> [c EXCEPT !.counter_en = TRUE, !.timer_en = FALSE, !.tpre = 0]
      [] op = 101 -> [c EXCEPT !.timer_en = FALSE, !.counter_en = FALSE, !.tpre = 0]
      [] op = 66  -> [c EXCEPT !.A = c.timer]
      [] op = 98  -> [c EXCEPT !.timer = c.A, !.tpre = 0]
      [] OTHER    -> c

\* The instruction fetches an operand byte with a second ft.
TwoByte(op) == op \in {35, 3} \/ IsCall(op)

\* cy of the instruction.
OpCycles(op) == IF TwoByte(op) \/ op \in {131, 147} THEN 2 ELSE 1

\* while (c->tpre >= 32) { ... }
RECURSIVE TimerLoop(_)
TimerLoop(c) ==
    IF c.tpre < 32 THEN c
    ELSE LET tm == (c.timer + 1) % 256
             c1 == [c EXCEPT !.tpre = @ - 32, !.timer = tm]
         IN TimerLoop(IF tm = 0
                      THEN [c1 EXCEPT !.timer_ovf = TRUE,
                                      !.irq_pend = IF c.tcnti_en /\ c.irq_en /\ ~c.in_irq
                                                   THEN TRUE ELSE @]
                      ELSE c1)

\* Timer prescaler block.
TimerTick_gt(c, cy) ==
    IF c.timer_en
    THEN IF c.tpre + cy > 32 THEN TimerLoop([c EXCEPT !.tpre = @ + cy])
         ELSE [c EXCEPT !.tpre = @ + cy]
    ELSE c

TimerTick_one(c, cy) ==
    IF c.timer_en THEN TimerLoop([c EXCEPT !.tpre = @ + 1]) ELSE c

TimerTick(c, cy) ==
    IF c.timer_en THEN TimerLoop([c EXCEPT !.tpre = @ + cy]) ELSE c

\* IRQ dispatch block at the end of i8048_exec.
IrqDispatch_noset(c) ==
    LET c1 == IF c.ei_delay > 0 THEN [c EXCEPT !.ei_delay = @ - 1] ELSE c IN
    IF c1.irq_pend /\ c1.irq_en /\ ~c1.in_irq /\ c1.ei_delay = 0
    THEN [push8(bpsw([c1 EXCEPT !.irq_pend = FALSE, !.irq_en = FALSE]))
            EXCEPT !.PC = IrqVector]
    ELSE c1

IrqDispatch(c) ==
    LET c1 == IF c.ei_delay > 0 THEN [c EXCEPT !.ei_delay = @ - 1] ELSE c IN
    IF c1.irq_pend /\ c1.irq_en /\ ~c1.in_irq /\ c1.ei_delay = 0
    THEN [push8(bpsw([c1 EXCEPT !.irq_pend = FALSE, !.in_irq = TRUE,
                                !.irq_en = FALSE]))
            EXCEPT !.PC = IrqVector]
    ELSE c1

\* c->cycles += cy.
AddCycles(c, cy) == [c EXCEPT !.cycles = @ + cy]

\* The state of i8048_exec as it reaches the IRQ dispatch block: the
\* instruction has executed and the timer block has run.
ExecBody(c, op, arg) ==
    TimerTick(AddCycles(ExecOp(ft(c), op, arg), OpCycles(op)), OpCycles(op))

\* i8048_exec with op the byte at PC and arg the byte after it.
i8048_exec(c, op, arg) == IrqDispatch(ExecBody(c, op, arg))

\* The counter block of av_run_frame, counting the level of T1.
T1Edge_level(c, new_t1) ==
    LET c1 == IF c.counter_en /\ ~new_t1
              THEN LET tm == (c.timer + 1) % 256 IN
                   IF tm = 0
                   THEN [c EXCEPT !.timer = tm, !.timer_ovf = TRUE,
                                  !.irq_pend = IF c.tcnti_en /\ c.irq_en /\ ~c.in_irq
                                               THEN TRUE ELSE @]
                   ELSE [c EXCEPT !.timer = tm]
              ELSE c
    IN [c1 EXCEPT !.t1 = new_t1]

\* av_run_frame after the instruction, with new_t1 the level of T1 that
\* the elapsed cycle count gives: counter mode counts a high-to-low
\* transition of T1, and the CPU's T1 input takes the new level.
T1Edge(c, new_t1) ==
    LET c1 == IF c.counter_en /\ c.t1 /\ ~new_t1
              THEN LET tm == (c.timer + 1) % 256 IN
                   IF tm = 0
                   THEN [c EXCEPT !.timer = tm, !.timer_ovf = TRUE,
                                  !.irq_pend = IF c.tcnti_en /\ c.irq_en /\ ~c.in_irq
                                               THEN TRUE ELSE @]
                   ELSE [c EXCEPT !.timer = tm]
              ELSE c
    IN [c1 EXCEPT !.t1 = new_t1]

(***************************************************************************)
(* The display: LED registers, column snapshot buffer, frame step.         *)
(***************************************************************************)
\* c->xram[a]: a content of external RAM that the program has written
\* (MOVX @R,A stores any byte at any address).
VideoRam(a) == (7 * a + 5 * (a \div 256) + 3) % 256

\* External RAM after a program has written its picture to video RAM.
VideoFilled == [a \in 0..(XRAM_SZ - 1) |-> VideoRam(a)]

\* AVDisp as av_init leaves it.  The phosphor buffer, which only
\* disp_update writes and only the renderer reads, is left out.
\* Phosphor values are kept in millionths (1.0f is PhosOne, the 0.01f
\* floor is PhosEps), decay constants in hundredths.
PhosOne == 1000000
PhosEps == 10000
DecayUnit == 100
DEF_PHOSPHOR == 45

\* The phosphor buffer is kept for the pixels of the first PhosCols
\* columns, indexed as in the code by col + y * SW.
PhosCols == 2
PhosPix == {col + y * SW : col \in 0..(PhosCols - 1), y \in 0..(SH - 1)}

DispInit ==
    [led_reg |-> <<255, 255, 255, 255, 255>>,
     led_col |-> 0, led_active |-> FALSE, cols_captured |-> 0,
     col_data |-> [c \in 0..(SW - 1) |-> <<0, 0, 0, 0, 0>>],
     phosphor |-> [i \in PhosPix |-> 0]]

\* The frame step's locals and the AV fields it shares with port writes,
\* as av_init leaves them; fpc is the position inside av_run_frame.
FrmInit ==
    [fpc |-> "idle", elapsed |-> 0,
     disp_sync_seen |-> FALSE, disp_sync_cycle |-> 0,
     prev_p2 |-> 0, midframe_scan |-> TRUE,
     t1_pulse_start |-> DEF_T1_START, t1_pulse_end |-> DEF_T1_END,
     cfg_phosphor |-> DEF_PHOSPHOR,
     frame_count |-> 0,
     rewind_alloc |-> TRUE, rewind_buf |-> [i \in {} |-> 0],
     rewind_head |-> 0, rewind_count |-> 0]

\* The five bytes of column col in external RAM.
ColumnBytes(col) ==
    LET bank   == 1 + (col \div 50)
        offset == 6 + (col % 50) * 5
        base   == bank * 256 + offset
    IN [i \in 1..5 |-> VideoRam(base + i - 1)]

disp_capture_column_flat(d, xram, col) ==
    IF col < 0 \/ col >= SW THEN d
    ELSE LET base == 256 + 6 + col * 5
             d1   == IF base + 4 < XRAM_SZ
                     THEN [d EXCEPT !.col_data[col] =
                                       [i \in 1..5 |-> xram[base + i - 1]]]
                     ELSE d
         IN [d1 EXCEPT !.cols_captured = IF col >= @ THEN col + 1 ELSE @]

disp_capture_column(d, xram, col) ==
    IF col < 0 \/ col >= SW THEN d
    ELSE LET bank   == 1 + (col \div 50)
             offset == 6 + (col % 50) * 5
             base   == bank * 256 + offset
             d1     == IF base + 4 < XRAM_SZ
                       THEN [d EXCEPT !.col_data[col] =
                                         [i \in 1..5 |-> xram[base + i - 1]]]
                       ELSE d
         IN [d1 EXCEPT !.cols_captured = IF col >= @ THEN col + 1 ELSE @]

\* Mutant: the select field taken one bit too low.
led_reg_decode_low(p2) ==
    LET sel == (p2 \div 16) % 8 IN
    CASE sel = 4 -> 0 [] sel = 2 -> 1 [] sel = 6 -> 2
      [] sel = 1 -> 3 [] sel = 5 -> 4 [] OTHER -> -1

\* Mutant: codes 5 and 7 exchanged.
led_reg_decode_seven(p2) ==
    LET sel == (p2 \div 32) % 8 IN
    CASE sel = 4 -> 0 [] sel = 2 -> 1 [] sel = 6 -> 2
      [] sel = 1 -> 3 [] sel = 7 -> 4 [] OTHER -> -1

led_reg_decode(p2) ==
    LET sel == (p2 \div 32) % 8 IN
    CASE sel = 4 -> 0
      [] sel = 2 -> 1
      [] sel = 6 -> 2
      [] sel = 1 -> 3
      [] sel = 5 -> 4
      [] OTHER   -> -1

av_led_latch(d, p2, data) ==
    LET ri == led_reg_decode(p2) IN
    IF ri >= 0 THEN [d EXCEPT !.led_reg[ri + 1] = data] ELSE d

disp_latch_led_column_wrap(d) ==
    LET col == d.led_col % SW
        d1  == [d EXCEPT !.col_data[col] = d.led_reg,
                         !.cols_captured = IF col >= @ THEN col + 1 ELSE @]
    IN [d1 EXCEPT !.led_col = @ + 1, !.led_active = TRUE]

disp_latch_led_column(d) ==
    LET col == d.led_col
        d1  == IF col >= 0 /\ col < SW
               THEN [d EXCEPT !.col_data[col] = d.led_reg,
                              !.cols_captured = IF col >= @ THEN col + 1 ELSE @]
               ELSE d
    IN [d1 EXCEPT !.led_col = @ + 1, !.led_active = TRUE]

\* disp_update: the columns below cols_captured light the phosphor, and
\* the count starts again.
\* Bit number bit of byte val.
BitOf(val, bit) == (val \div (2 ^ bit)) % 2

\* d->phosphor[i] *= decay; if (d->phosphor[i] < 0.01f) d->phosphor[i] = 0.
PhosDecay(p, decay) ==
    LET q == (p * decay) \div DecayUnit IN IF q < PhosEps THEN 0 ELSE q

\* Mutant: the decay without the floor.
disp_update_nofloor(d, decay) ==
    LET cols == IF d.cols_captured > SW THEN SW ELSE d.cols_captured
    IN [d EXCEPT !.phosphor = [i \in PhosPix |->
                   LET col == i % SW
                       y   == i \div SW
                       val == d.col_data[col][(4 - (y \div 8)) + 1]
                   IN IF col < cols /\ BitOf(val, 7 - (y % 8)) = 0
                      THEN PhosOne
                      ELSE (d.phosphor[i] * decay) \div DecayUnit],
                 !.cols_captured = 0]

\* disp_update: every pixel decays, then the pixel at (col, y), y =
\* (4 - bi) * 8 + (7 - bit), of each column below cols_captured is set to
\* 1.0f when bit number bit of byte bi of the column is clear.
disp_update(d, decay) ==
    LET cols == IF d.cols_captured > SW THEN SW ELSE d.cols_captured
        dec  == [i \in PhosPix |-> PhosDecay(d.phosphor[i], decay)]
        Lit(i) == \E bi \in 0..4, bit \in 0..7 :
                     /\ i % SW < cols
                     /\ (4 - bi) * 8 + (7 - bit) = i \div SW
                     /\ (4 - bi) * 8 + (7 - bit) < SH
                     /\ BitOf(d.col_data[i % SW][bi + 1], bit) = 0
    IN [d EXCEPT !.phosphor = [i \in PhosPix |->
                                 IF Lit(i) THEN PhosOne ELSE dec[i]],
                 !.cols_captured = 0]

\* Bit 4 of a port value.
P24(val) == (val \div 16) % 2 = 1

\* av_port_write, port 2, display part: a rising edge of P2.4 latches the
\* LED registers into the current column.
LedStrobe(d, prev_p2, val) ==
    IF P24(val) /\ ~P24(prev_p2) THEN disp_latch_led_column(d) ELSE d

\* T1 as the frame step derives it from the elapsed cycle count e.
NewT1(f, e) == ~(e >= f.t1_pulse_start /\ e < f.t1_pulse_end)

\* The column the mid-frame scan captures at elapsed count e, or -1.
ScanColumn(f, d, e) ==
    IF f.midframe_scan /\ ~d.led_active /\ f.disp_sync_seen
    THEN LET disp_elapsed == e - f.disp_sync_cycle IN
         IF disp_elapsed >= 0 /\ disp_elapsed <= DISP_OUTPUT_CYCLES
         THEN LET col == (disp_elapsed * SW) \div DISP_OUTPUT_CYCLES IN
              IF col >= 0 /\ col < SW THEN col ELSE -1
         ELSE -1
    ELSE -1

\* The body of av_run_frame's loop after i8048_exec has returned cy, with
\* c and d the CPU and the display as the instruction left them: elapsed,
\* T1, the sync edge, the mid-frame capture (cap: its column or -1), the
\* counter block.
FrameBody(f, d, c, cy) ==
    LET e      == f.elapsed + cy
        new_t1 == NewT1(f, e)
        rise   == ~c.t1 /\ new_t1 /\ ~f.disp_sync_seen
        f1     == IF rise
                  THEN [f EXCEPT !.elapsed = e, !.disp_sync_cycle = e,
                                 !.disp_sync_seen = TRUE]
                  ELSE [f EXCEPT !.elapsed = e]
        d1     == IF rise THEN [d EXCEPT !.led_col = 0] ELSE d
        col    == ScanColumn(f1, d1, e)
    IN [frm |-> f1,
        disp |-> IF col >= 0 THEN disp_capture_column(d1, c.xram, col) ELSE d1,
        cpu |-> T1Edge(c, new_t1),
        cap |-> col]

\* av_run_frame before its loop.
FrameHead(f) ==
    [f EXCEPT !.fpc = "loop", !.elapsed = 0,
              !.disp_sync_seen = FALSE, !.disp_sync_cycle = 0]

FrameHeadDisp(d) ==
    [d EXCEPT !.led_reg = <<255, 255, 255, 255, 255>>,
              !.led_col = 0, !.led_active = FALSE]

\* for (col = 0; col < SW; col++) disp_capture_column(...).
\* Iteration c of the loop touches column c and cols_captured only, so the
\* loop from col leaves each column c >= col as its own iteration does.
CaptureAll(d, xram, col) ==
    IF col >= SW THEN d
    ELSE [d EXCEPT !.col_data = [c \in 0..(SW - 1) |->
                      IF c >= col
                      THEN disp_capture_column(d, xram, c).col_data[c]
                      ELSE d.col_data[c]],
                   !.cols_captured =
                      disp_capture_column(d, xram, SW - 1).cols_captured]

\* av_run_frame after its loop: the whole-buffer capture of the fallback
\* path without mid-frame scan (full: it ran), then disp_update.
FrameTail(f, d, xram) ==
    LET full == ~d.led_active /\ ~f.midframe_scan
        d1   == IF full THEN CaptureAll(d, xram, 0) ELSE d
    IN [frm |-> [f EXCEPT !.fpc = "idle", !.frame_count = @ + 1],
        disp |-> disp_update(d1, f.cfg_phosphor),
        shown |-> d1,
        full |-> full]

\* i8048_exec for an instruction of cy cycles that touches none of the
\* registers above.
ExecOther(c, cy) == IrqDispatch(TimerTick(AddCycles(c, cy), cy))

\* The flags byte of a snapshot: MB, C, AC, F0, F1, BS, timer_en,
\* counter_en in bits 0..7.
PackFlags(c) ==
    B2N(c.MB) + 2 * B2N(c.C) + 4 * B2N(c.AC) + 8 * B2N(c.F0)
    + 16 * B2N(c.F1) + 32 * B2N(c.BS) + 64 * B2N(c.timer_en)
    + 128 * B2N(c.counter_en)

\* The flags2 byte: timer_ovf, tcnti_en, irq_en, irq_pend, in_irq in
\* bits 0..4.
PackFlags2(c) ==
    B2N(c.timer_ovf) + 2 * B2N(c.tcnti_en) + 4 * B2N(c.irq_en)
    + 8 * B2N(c.irq_pend) + 16 * B2N(c.in_irq)

\* The thirteen flag assignments that unpack flags and flags2.
UnpackFlags(c, flags, flags2) ==
    [c EXCEPT !.MB = BitOf(flags, 0) = 1, !.C = BitOf(flags, 1) = 1,
              !.AC = BitOf(flags, 2) = 1, !.F0 = BitOf(flags, 3) = 1,
              !.F1 = BitOf(flags, 4) = 1, !.BS = BitOf(flags, 5) = 1,
              !.timer_en = BitOf(flags, 6) = 1,
              !.counter_en = BitOf(flags, 7) = 1,
              !.timer_ovf = BitOf(flags2, 0) = 1,
              !.tcnti_en = BitOf(flags2, 1) = 1,
              !.irq_en = BitOf(flags2, 2) = 1,
              !.irq_pend = BitOf(flags2, 3) = 1,
              !.in_irq = BitOf(flags2, 4) = 1]

\* A RewindSnap of CPU c, display d and sound s.
RewindSnap(c, d, s) ==
    [A |-> c.A, PC |-> c.PC, PSW |-> c.PSW, SP |-> c.SP,
     P1 |-> c.P1, P2 |-> c.P2, BUS |-> c.BUS,
     timer |-> c.timer, tpre |-> c.tpre,
     flags |-> PackFlags(c), flags2 |-> PackFlags2(c),
     iram |-> c.iram, xram |-> c.xram,
     phosphor |-> d.phosphor,
     snd_ctrl_loop |-> s.ctrl_loop, snd_ctrl_vol |-> s.ctrl_vol,
     snd_ctrl_fast |-> s.ctrl_fast,
     snd_proto_state |-> s.proto_state,
     snd_proto_hi |-> s.proto_hi, snd_lfsr |-> s.lfsr]

\* A slot of the ring as calloc leaves it.
ZeroSnap ==
    [A |-> 0, PC |-> 0, PSW |-> 0, SP |-> 0, P1 |-> 0, P2 |-> 0, BUS |-> 0,
     timer |-> 0, tpre |-> 0, flags |-> 0, flags2 |-> 0,
     iram |-> [a \in 0..(IRAM_SZ - 1) |-> 0],
     xram |-> [a \in 0..(XRAM_SZ - 1) |-> 0],
     phosphor |-> [i \in PhosPix |-> 0],
     snd_ctrl_loop |-> 0, snd_ctrl_vol |-> 0, snd_ctrl_fast |-> 0,
     snd_proto_state |-> 0, snd_proto_hi |-> 0, snd_lfsr |-> 0]

\* rewind_buf[i]: rewind_buf is held as the slots written so far, the
\* others being as calloc left them.
RewindSlot(f, i) ==
    IF i \in DOMAIN f.rewind_buf THEN f.rewind_buf[i] ELSE ZeroSnap

\* rewind_push: nothing without a buffer; otherwise a RewindSnap of the
\* CPU, the RAMs, the phosphor buffer and the essential sound state is
\* written at rewind_head, rewind_head advances modulo REWIND_FRAMES and
\* rewind_count grows up to REWIND_FRAMES.
rewind_push(f, c, d, s) ==
    IF ~f.rewind_alloc THEN f
    ELSE [f EXCEPT
            !.rewind_buf = [i \in DOMAIN f.rewind_buf \cup {f.rewind_head} |->
                              IF i = f.rewind_head THEN RewindSnap(c, d, s)
                              ELSE f.rewind_buf[i]],
            !.rewind_head = (f.rewind_head + 1) % REWIND_FRAMES,
            !.rewind_count = IF f.rewind_count < REWIND_FRAMES
                             THEN f.rewind_count + 1 ELSE f.rewind_count]

\* The fields rewind_pop assigns from snapshot sn.
RewindRestore(f, c, d, s, sn) ==
    LET c1 == [c EXCEPT !.A = sn.A, !.PC = sn.PC, !.PSW = sn.PSW,
                        !.SP = sn.SP, !.P1 = sn.P1, !.P2 = sn.P2,
                        !.BUS = sn.BUS, !.timer = sn.timer,
                        !.tpre = sn.tpre, !.ei_delay = 0,
                        !.iram = sn.iram, !.xram = sn.xram]
    IN [ok   |-> TRUE,
        frm  |-> [f EXCEPT !.prev_p2 = sn.P2],
        cpu  |-> UnpackFlags(c1, sn.flags, sn.flags2),
        disp |-> [d EXCEPT !.phosphor = sn.phosphor],
        snd  |-> [s EXCEPT !.ctrl_loop = sn.snd_ctrl_loop,
                           !.ctrl_vol = sn.snd_ctrl_vol,
                           !.ctrl_fast = sn.snd_ctrl_fast,
                           !.proto_state = sn.snd_proto_state,
                           !.proto_hi = sn.snd_proto_hi,
                           !.lfsr = sn.snd_lfsr,
                           !.active = FALSE]]

\* A plausible slip: the test of rewind_count is missing.
rewind_pop_nocount(f, c, d, s) ==
    IF ~f.rewind_alloc
    THEN [ok |-> FALSE, frm |-> f, cpu |-> c, disp |-> d, snd |-> s]
    ELSE LET h  == (f.rewind_head - 1 + REWIND_FRAMES) % REWIND_FRAMES
             f1 == [f EXCEPT !.rewind_head = h,
                             !.rewind_count = f.rewind_count - 1]
         IN RewindRestore(f1, c, d, s, RewindSlot(f1, h))

\* rewind_pop: refuses a missing buffer and an empty ring; otherwise
\* rewind_head steps back modulo REWIND_FRAMES, rewind_count drops, the
\* snapshot at rewind_head is restored, prev_p2 follows P2, ei_delay is
\* cleared and the sound is made inactive.
rewind_pop(f, c, d, s) ==
    IF ~f.rewind_alloc \/ f.rewind_count <= 0
    THEN [ok |-> FALSE, frm |-> f, cpu |-> c, disp |-> d, snd |-> s]
    ELSE LET h  == (f.rewind_head - 1 + REWIND_FRAMES) % REWIND_FRAMES
             f1 == [f EXCEPT !.rewind_head = h,
                             !.rewind_count = f.rewind_count - 1]
         IN RewindRestore(f1, c, d, s, RewindSlot(f1, h))

(***************************************************************************)
(* History kept for the properties.                                        *)
(***************************************************************************)
\* The three writes of the tone scenario: 0xC0, 0xE5, 0x00.
ToneScenario == <<192, 229, 0>>

\* The context an interrupt or a call leaves and a return resumes.
Ctx(c) == [PC |-> c.PC, SP |-> c.SP, C |-> c.C, AC |-> c.AC,
           F0 |-> c.F0, BS |-> c.BS]

NoCtx == [PC |-> -1, SP |-> -1, C |-> FALSE, AC |-> FALSE,
          F0 |-> FALSE, BS |-> FALSE]

\* What the dispatch block tests, and the context it pushes.
At(c) == [pend |-> c.irq_pend, en |-> c.irq_en, busy |-> c.in_irq,
          delay |-> c.ei_delay, ctx |-> Ctx(c)]

NoAt == [pend |-> FALSE, en |-> FALSE, busy |-> FALSE, delay |-> 0,
         ctx |-> NoCtx]

\* The input of an end-of-frame update: the number of columns it lights,
\* where their bytes came from, and whether the frame saw a P2.4 commit.
NoUpd == [cols |-> -1, vram |-> {}, led |-> {}, active |-> FALSE]

\* No savestate file has been written.
NoFile == <<>>

\* No advision.ini exists: fopen fails.
NoIni == <<>>

HistInit ==
    [op    |-> "init",  \* the operation of the last step
     val   |-> 0,       \* the value of the last port-2 write
     cmd   |-> -1,      \* the byte the last step handed to cop411_command
     last  |-> -1,      \* the byte of the latest cop411_command call
     was   |-> FALSE,   \* a sound was active when that call was made
     nwr   |-> 0,       \* port-2 writes so far
     ndisp |-> 0,       \* cop411_command calls so far
     nhs   |-> 0,       \* idle -> state-1 transitions so far
     pre   |-> 0,       \* k: the writes so far are ToneScenario[1..k]; -1: not
     ncb   |-> 0,       \* callbacks that found the latest command's sound active
     nsamp |-> 0,       \* samples generated by the latest command's sound
     nrst  |-> 0,       \* soft resets so far
     nrw   |-> 0,       \* SpecRewind: F8 presses so far
     stack |-> <<>>,    \* SpecRewind: the snapshots pushed and not popped
     nexec |-> 0,       \* instructions executed so far
     arg   |-> 0,       \* the byte after the opcode of the last instruction (SpecPc)
     keys  |-> {},      \* the inputs held down when the last IN A,P1 ran
     nedge |-> 0,       \* SpecCpu: T1 falling edges so far
     nlow  |-> 0,       \* SpecT1: frame steps that have shown T1 low
     nrise |-> 0,       \* SpecT1: T1 rising edges so far
     irq   |-> FALSE,   \* the last step dispatched an interrupt
     at    |-> NoAt,    \* the CPU as that dispatch found it
     isave |-> NoCtx,   \* the context the latest dispatch interrupted
     csave |-> NoCtx,   \* return address and SP of the latest CALL
     ret   |-> NoCtx,   \* the context the latest RET or RETR resumed
     vram  |-> {},      \* columns this frame last wrote from video RAM
     led   |-> {},      \* columns this frame last wrote from the LED registers
     upd   |-> NoUpd,   \* what the latest end-of-frame update was given
     nfr   |-> 0,       \* frame steps begun so far
     t0    |-> 0,       \* SpecTimer: the timer register at the start
     p0    |-> 0,       \* SpecTimer: the prescaler at the start
     ref   |-> <<>>,    \* SpecConc: the engine had every operation been atomic
     before |-> <<>>,   \* the state the latest reset, load or rewind found
     ok    |-> FALSE]   \* what the latest load_state or rewind_pop returned

\* History after a port-2 write of val made in state s with outcome r.
HistWrite(h, s, val, r) ==
    [h EXCEPT !.op = "write", !.val = val, !.cmd = r.cmd,
              !.last = IF r.cmd >= 0 THEN r.cmd ELSE @,
              !.was = IF r.cmd >= 0 THEN s.active ELSE @,
              !.nwr = @ + 1,
              !.ndisp = IF r.cmd >= 0 THEN @ + 1 ELSE @,
              !.nhs = IF s.proto_state = 0 /\ r.snd.proto_state = 1 THEN @ + 1 ELSE @,
              !.pre = IF h.pre >= 0 /\ h.pre < Len(ToneScenario)
                         /\ ToneScenario[h.pre + 1] = val
                      THEN h.pre + 1 ELSE -1,
              !.ncb = IF r.cmd >= 0 THEN 0 ELSE @,
              !.nsamp = IF r.cmd >= 0 THEN 0 ELSE @]

(***************************************************************************)
(* Spec: the port-2 sound protocol driven by arbitrary writes, no audio    *)
(* device open (headless run).                                             *)
(***************************************************************************)
MaxWrites == 6

\* Values written to port 2: every upper nibble with a zero lower nibble
\* (0x00 and 0xC0 among them), and 0x05, 0x5E, 0xC5, 0xE5, whose lower nibble
\* is not zero.  The protocol reads val == 0xC0, val == 0x00 and val >> 4.
PortVals == {16 * h : h \in Nibble} \cup {5, 94, 197, 229}

IdleRest ==
    /\ lock = "free" /\ ppc = "idle" /\ pval = 0 /\ cpc = "idle"
    /\ cpu = I8048Init /\ rom = <<>> /\ file = NoFile /\ ini = NoIni
    /\ disp = DispInit /\ frm = FrmInit

\* av_init: cop411_init on a zeroed machine.
Init ==
    /\ snd = cop411_init
    /\ adev = FALSE
    /\ IdleRest
    /\ hist = HistInit

\* OUTL/ANL/ORL P2 reaching av_port_write(av, 2, val).
PortWrite(val) ==
    /\ hist.nwr < MaxWrites
    /\ LET r == av_port_write(snd, val) IN
         /\ snd' = r.snd
         /\ hist' = HistWrite(hist, snd, val, r)
    /\ disp' = LedStrobe(disp, frm.prev_p2, val)
    /\ frm' = [frm EXCEPT !.prev_p2 = val]
    /\ UNCHANGED <<adev, lock, ppc, pval, cpc, cpu, rom, file, ini>>

Next == \E val \in PortVals : PortWrite(val)

Spec == Init /\ [][Next]_vars

(***************************************************************************)
(* Properties of the port-2 protocol (Spec).                               *)
(***************************************************************************)
\* C1: every port-2 write moves the protocol as the four-state handshake
\* says: idle goes to state 1 on exactly 0xC0 and stays idle otherwise;
\* state 1 captures the upper nibble and goes to state 2; state 2 hands
\* hi<<4 to the engine on 0x00 (back to idle) and (hi<<4)|(val>>4) otherwise
\* (to state 3); state 3 goes back to idle on 0x00 only.  Nothing is handed
\* to the engine outside state 2, so commands never outnumber handshakes.
C1_NibbleProtocol ==
    [][hist'.op = "write" =>
         LET v == hist'.val
             d == hist'.cmd
         IN /\ snd.proto_state = 0 =>
                 /\ d = -1
                 /\ snd'.proto_state = IF v = 192 THEN 1 ELSE 0
            /\ snd.proto_state = 1 =>
                 /\ d = -1
                 /\ snd'.proto_state = 2
                 /\ snd'.proto_hi = v \div 16
            /\ snd.proto_state = 2 =>
                 /\ snd'.proto_hi = snd.proto_hi
                 /\ IF v = 0
                    THEN d = snd.proto_hi * 16 /\ snd'.proto_state = 0
                    ELSE d = snd.proto_hi * 16 + v \div 16 /\ snd'.proto_state = 3
            /\ snd.proto_state = 3 =>
                 /\ d = -1
                 /\ snd'.proto_state = IF v = 0 THEN 0 ELSE 3
            /\ snd.proto_state \in 0..3
            /\ hist'.ndisp <= hist'.nhs
            /\ hist'.ndisp = hist.ndisp + (IF d >= 0 THEN 1 ELSE 0)
    ]_vars

\* Two handshakes, the first closed by 0x00, the second with both nibbles
\* (0x35) and now in state 3.
C1_Witness ==
    /\ hist.ndisp = 2 /\ hist.nhs = 2
    /\ hist.last = 53
    /\ snd.proto_state = 3

\* C2 as stated: after the writes 0xC0, 0xE5, 0x00 the sound is active,
\* non-noise, at tone 5 (between 319.0 and 322.0 Hz).
C2_ToneFive ==
    hist.pre = 3 =>
        /\ snd.active /\ ~snd.is_noise
        /\ snd.cur_freq > 31900 /\ snd.cur_freq < 32200

\* C2 amended: after the writes 0xC0, 0xE5, 0x00 the engine has received
\* command byte 0xE0 and the sound is active, non-noise, at tone 0
\* (239.23 Hz): the closing 0x00 ends the handshake on the high nibble alone.
C2_ToneZero ==
    hist.pre = 3 =>
        /\ hist.last = 224
        /\ snd.active /\ ~snd.is_noise
        /\ snd.cur_freq = cop411_note_freq[1]
        /\ snd.cur_freq > 23900 /\ snd.cur_freq < 24000
        /\ snd.proto_state = 0

C2_Witness == hist.pre = 3 /\ hist.nwr = 3 /\ snd.active

(***************************************************************************)
(* SpecPlay: one sound command played out.  The control register holds    *)
(* any of its 16 settings; the firmware's sound routine (the BIOS routine  *)
(* described above the protocol code: P2=$C0, P2=cmd_byte,                 *)
(* P2=SWAP(cmd_byte), P2=$00) delivers one command byte; the audio         *)
(* callback generates AUDIO_SAMPLES samples at a time.                     *)
(***************************************************************************)
\* Callbacks followed while a sound stays active (looping sounds never end).
MaxCb == 90

\* Command bytes delivered: every control byte (0x00-0x0F), every tone byte
\* (0xE0-0xFF), and every effect 0x1-0xD with data nibble 0x0 and 0xF
\* (cop411_build_effect ignores its data argument).
PlayCmds == {b \in Byte : b \div 16 \in {0, 14, 15} \/ b % 16 \in {0, 15}}

\* SWAP A: exchange the nibbles of a byte.
Swap(b) == (b % 16) * 16 + b \div 16

\* av_init followed by one control-register command (byte 0x0c).
InitPlay ==
    /\ \E c \in Nibble : snd = cop411_command(cop411_init, c)
    /\ adev = TRUE
    /\ IdleRest
    /\ hist = HistInit

\* The value the sound routine writes at each position.
BiosVal(pc, b) ==
    CASE pc = "idle" -> 192
      [] pc = "w2"   -> b
      [] pc = "w3"   -> Swap(b)
      [] OTHER       -> 0

BiosNext(pc) ==
    CASE pc = "idle" -> "w2"
      [] pc = "w2"   -> "w3"
      [] pc = "w3"   -> "w4"
      [] OTHER       -> "done"

\* One OUTL P2,A of the sound routine delivering command byte b.
BiosWrite(b) ==
    /\ ppc \in {"idle", "w2", "w3", "w4"}
    /\ IF ppc = "idle" THEN pval' = b ELSE b = pval /\ pval' = pval
    /\ ppc' = BiosNext(ppc)
    /\ LET v == BiosVal(ppc, b)
           r == av_port_write(snd, v)
       IN /\ snd' = r.snd
          /\ hist' = HistWrite(hist, snd, v, r)
          /\ disp' = LedStrobe(disp, frm.prev_p2, v)
          /\ frm' = [frm EXCEPT !.prev_p2 = v]
    /\ UNCHANGED <<adev, lock, cpc, cpu, rom, file, ini>>

\* audio_cb: AUDIO_SAMPLES calls of cop411_sample under the device lock.
AudioCb ==
    /\ adev
    /\ snd.active => hist.ncb < MaxCb
    /\ LET r == RunSamples(snd, AUDIO_SAMPLES, 0) IN
         /\ snd' = r[1]
         /\ hist' = [hist EXCEPT !.op = "cb", !.cmd = -1,
                                 !.ncb = IF snd.active THEN @ + 1 ELSE @,
                                 !.nsamp = @ + r[2]]
    /\ UNCHANGED <<adev, lock, ppc, pval, cpc, cpu, rom, file, ini, disp, frm>>

NextPlay ==
    \/ \E b \in PlayCmds : BiosWrite(b)
    \/ AudioCb

SpecPlay == InitPlay /\ [][NextPlay]_vars

(***************************************************************************)
(* Properties of playback (SpecPlay).  The expected position of the        *)
(* sequencer is computed from the number of samples generated since the    *)
(* command, by arithmetic on the step durations.                           *)
(***************************************************************************)
\* Samples of steps 0..i-1 of effect cmd at the speed of s.
RECURSIVE CumSamples(_, _, _)
CumSamples(s, cmd, i) ==
    IF i = 0 THEN 0
    ELSE CumSamples(s, cmd, i - 1) + StepSamples(EffectStep(s, cmd, i - 1).dur_ms)

EffectTotal(s, cmd) == CumSamples(s, cmd, EffectLen(cmd))

\* The step of effect cmd that is playing once p samples of it are out.
StepAt(s, cmd, p) ==
    CHOOSE i \in 0..(EffectLen(cmd) - 1) :
        CumSamples(s, cmd, i) <= p /\ p < CumSamples(s, cmd, i + 1)

\* The sequencer registers while step i of cmd plays with p samples out.
InStep(s, cmd, p) ==
    LET i == StepAt(s, cmd, p) IN
    /\ s.active
    /\ s.command = cmd
    /\ s.step_count = EffectLen(cmd)
    /\ s.cur_step = i
    /\ s.step_samples_left = CumSamples(s, cmd, i + 1) - p
    /\ s.cur_freq = EffectStep(s, cmd, i).freq
    /\ s.cur_vol = EffectStep(s, cmd, i).volume
    /\ s.is_noise = EffectStep(s, cmd, i).noise

\* The latest command, its nibbles, and the samples it has produced.
LastCmd  == hist.last \div 16
LastData == hist.last % 16

\* C6: with n samples generated since effect e (1..D) was dispatched, the
\* sequencer is where the end-of-step rule puts it: inside the script while
\* n is below its length; at the end command 3 armed with ctrl_loop has
\* become command 2; a looping effect has rewound to step 0 (command 5 to its
\* last step only); a non-looping effect is inactive.  An active effect has
\* 0 <= cur_step < step_count <= 16.
C6_Sequencer ==
    (hist.last >= 0 /\ LastCmd \in 1..13) =>
        LET e     == LastCmd
            n     == hist.nsamp
            T     == EffectTotal(snd, e)
            loop  == snd.ctrl_loop /= 0
            last  == EffectLen(5) - 1
            lastN == StepSamples(EffectStep(snd, 5, last).dur_ms)
        IN /\ snd.active =>
                 /\ 0 <= snd.cur_step
                 /\ snd.cur_step < snd.step_count
                 /\ snd.step_count <= 16
           /\ IF n < T THEN InStep(snd, e, n)
              ELSE IF e = 3 /\ loop
                   THEN InStep(snd, 2, (n - T) % EffectTotal(snd, 2))
              ELSE IF e = 6 THEN ~snd.active /\ n = T
              ELSE IF e = 5 /\ loop
                   THEN InStep(snd, 5, CumSamples(snd, 5, last) + ((n - T) % lastN))
              ELSE IF e = 1 \/ loop THEN InStep(snd, e, n % T)
              ELSE ~snd.active /\ n = T

\* Command 5 looping on its last step after a full pass, command 3 chained
\* into command 2 and looping there, and a plain effect rewound to step 0.
C6_Witness ==
    /\ LastCmd = 5 /\ snd.ctrl_loop = 1 /\ snd.active
    /\ hist.nsamp > EffectTotal(snd, 5) + 2 * StepSamples(EffectStep(snd, 5, 9).dur_ms)
    /\ snd.cur_step = 9

\* C7: after command 1 the sound is active, noise, force_loop, and stays so
\* for every ctrl_loop however many samples are generated.
C7_NoiseLoops ==
    (hist.last >= 0 /\ LastCmd = 1) =>
        /\ snd.active /\ snd.is_noise /\ snd.force_loop
        /\ snd.command = 1

\* Command 1 with ctrl_loop = 0 after more than four passes of its step.
C7_Witness ==
    /\ hist.last = 16 /\ snd.ctrl_loop = 0
    /\ hist.nsamp > 4 * EffectTotal(snd, 1)
    /\ snd.active

\* Samples of the two tone segments at the speed of s.
ToneSeg1(s) == ((IF s.ctrl_fast /= 0 THEN 46 ELSE 117) * AUDIO_RATE) \div 1000
ToneSeg2(s) == ((IF s.ctrl_fast /= 0 THEN 104 ELSE 240) * AUDIO_RATE) \div 1000

\* C8: command 6 ends after exactly one pass of its 12 steps whatever the
\* control register holds; effects 2-4, 7-9, A-D and the tones end after one
\* pass when ctrl_loop = 0.  No sample is generated beyond the pass.
C8_Terminates ==
    (hist.last >= 0) =>
        LET e == LastCmd
            n == hist.nsamp
        IN /\ e = 6 =>
                /\ n <= EffectTotal(snd, 6)
                /\ snd.active <=> n < EffectTotal(snd, 6)
                /\ ~snd.active => snd.cur_step = 12 /\ snd.step_count = 12
           /\ (e \in ((2..4) \cup (7..13)) /\ snd.ctrl_loop = 0) =>
                /\ n <= EffectTotal(snd, e)
                /\ snd.active <=> n < EffectTotal(snd, e)
           /\ (e \in {14, 15} /\ snd.ctrl_loop = 0) =>
                /\ n <= ToneSeg1(snd) + ToneSeg2(snd)
                /\ snd.active <=> n < ToneSeg1(snd) + ToneSeg2(snd)

\* Command 6 delivered with ctrl_loop = 1, slow, played to its end.
C8_Witness ==
    /\ LastCmd = 6 /\ snd.ctrl_loop = 1 /\ snd.ctrl_fast = 0
    /\ ~snd.active
    /\ hist.nsamp = 44982

\* C9: a tone plays note = low nibble; segment 1 lasts 117 ms (46 fast) at
\* v1, segment 2 lasts 240 ms (104 fast) at v2, (v1, v2) by ctrl_vol; at the
\* end of segment 2 it restarts at segment 1 when ctrl_loop, else it ends.
C9_ToneSegments ==
    (hist.last >= 0 /\ LastCmd \in {14, 15}) =>
        LET n  == hist.nsamp
            T1 == ToneSeg1(snd)
            T2 == ToneSeg2(snd)
            v1 == IF snd.ctrl_vol = 0 THEN 400 ELSE 1000
            v2 == IF snd.ctrl_vol >= 2 THEN 1000 ELSE 400
            p  == IF snd.ctrl_loop /= 0 THEN n % (T1 + T2) ELSE n
        IN /\ snd.cur_freq = cop411_note_freq[LastData + 1]
           /\ ~snd.is_noise
           /\ IF p < T1
              THEN /\ snd.active /\ snd.segment = 0
                   /\ snd.cur_vol = v1
                   /\ snd.seg_samples_left = T1 - p
              ELSE IF p < T1 + T2
              THEN /\ snd.active /\ snd.segment = 1
                   /\ snd.cur_vol = v2
                   /\ snd.seg_samples_left = T1 + T2 - p
              ELSE ~snd.active /\ snd.ctrl_loop = 0 /\ p = T1 + T2

\* A looping tone with v1 /= v2 back in segment 1 after a full pass.
C9_Witness ==
    /\ LastCmd = 14 /\ snd.ctrl_loop = 1 /\ snd.ctrl_vol = 1
    /\ snd.active /\ snd.segment = 0
    /\ hist.nsamp > ToneSeg1(snd) + ToneSeg2(snd)

(***************************************************************************)
(* SpecCtrl: SpecPlay, and after the command the sound routine may run a   *)
(* second time to deliver a control byte.  Its four writes take some 40    *)
(* machine cycles, far less than the callback period, and are taken here   *)
(* as one step with no callback in between.                                *)
(***************************************************************************)
\* Control bytes of the second call: all bits clear, all bits set.
CtrlBytes == {0, 15}

\* The four writes of the sound routine for byte b, from state s, history h.
RoutineRun(s, h, b) ==
    LET r1 == av_port_write(s, BiosVal("idle", b))
        h1 == HistWrite(h, s, BiosVal("idle", b), r1)
        r2 == av_port_write(r1.snd, BiosVal("w2", b))
        h2 == HistWrite(h1, r1.snd, BiosVal("w2", b), r2)
        r3 == av_port_write(r2.snd, BiosVal("w3", b))
        h3 == HistWrite(h2, r2.snd, BiosVal("w3", b), r3)
        r4 == av_port_write(r3.snd, BiosVal("w4", b))
        h4 == HistWrite(h3, r3.snd, BiosVal("w4", b), r4)
    IN [snd |-> r4.snd, hist |-> [h4 EXCEPT !.op = "routine", !.cmd = h4.last]]

\* The display side of the same four writes, from display state d with
\* prev_p2 the value written last before them.
RoutineStrobes(d, prev_p2, b) ==
    LET d1 == LedStrobe(d, prev_p2, BiosVal("idle", b))
        d2 == LedStrobe(d1, BiosVal("idle", b), BiosVal("w2", b))
        d3 == LedStrobe(d2, BiosVal("w2", b), BiosVal("w3", b))
    IN LedStrobe(d3, BiosVal("w3", b), BiosVal("w4", b))

\* The sound routine called again, with control byte b.
BiosCtrl(b) ==
    /\ ppc = "done"
    /\ ppc' = "again"
    /\ pval' = b
    /\ LET r == RoutineRun(snd, hist, b) IN
         /\ snd' = r.snd
         /\ hist' = r.hist
    /\ disp' = RoutineStrobes(disp, frm.prev_p2, b)
    /\ frm' = [frm EXCEPT !.prev_p2 = BiosVal("w4", b)]
    /\ UNCHANGED <<adev, lock, cpc, cpu, rom, file, ini>>

NextCtrl ==
    \/ \E b \in PlayCmds : BiosWrite(b)
    \/ AudioCb
    \/ \E b \in CtrlBytes : BiosCtrl(b)

SpecCtrl == InitPlay /\ [][NextCtrl]_vars

MaxConcWrites == 6
MaxConcCb     == 2
MaxResets     == 1

\* Port-2 values of the producer: the reset pulse, the closing zero, and
\* three nibbles (0x3, 0xE, 0x8) from which the commands 0x30 (effect 3),
\* 0xE0/0xE3/0xE8 (tones), 0x80 (effect 8), 0x03/0x08/0x0E (control), ...
\* are assembled.
ConcVals == {192, 0, 48, 224, 128}

\* The fields audio_cb reads or writes through cop411_sample: all but the
\* protocol state and the captured nibble.
Shared(s) == [s EXCEPT !.proto_state = 0, !.proto_hi = 0]

\* A plausible slip: the call of SDL_LockAudioDevice is missing.
MayLock_nolock(a, l) == TRUE

\* if (av->adev) SDL_LockAudioDevice(...): returns once the lock is free.
MayLock(a, l) == a => l = "free"

\* The sound part of av_reset: cop411_init, control register restored.
ResetSnd(s) ==
    cop411_update_ctrl_vol([cop411_init EXCEPT !.ctrl_loop = s.ctrl_loop,
                                                !.ctrl_vol = s.ctrl_vol,
                                                !.ctrl_fast = s.ctrl_fast])

\* av_reset without the restore of the ROM images from their backups.
av_reset_norom(c, r, d, s, f) ==
    [cpu |-> I8048Init, rom |-> [i \in DOMAIN r |-> 0],
     disp |-> [d EXCEPT !.phosphor = [i \in PhosPix |-> 0]],
     snd |-> ResetSnd(s), frm |-> [f EXCEPT !.frame_count = 0]]

\* av_reset without the restore of the control register after cop411_init.
av_reset_noctrl(c, r, d, s, f) ==
    [cpu |-> I8048Init, rom |-> r,
     disp |-> [d EXCEPT !.phosphor = [i \in PhosPix |-> 0]],
     snd |-> cop411_update_ctrl_vol(cop411_init),
     frm |-> [f EXCEPT !.frame_count = 0]]

\* av_reset: the ROM images, the display and the control register are
\* backed up; the CPU is cleared (memset 0, the ROM images with it) and
\* given its reset values P1 = 0xFB, P2 = 0xFF, t0, xram banks 1..3 = 0xFF;
\* the ROM images and the display are restored and the phosphor buffer
\* zeroed; the sound engine is reinitialised with the control register
\* restored; frame_count = 0.  prev_p2 and the rewind buffer are kept.
av_reset(c, r, d, s, f) ==
    LET rom_bak  == r
        disp_bak == d
        cleared  == [cpu |-> I8048Init, rom |-> [i \in DOMAIN r |-> 0]]
    IN [cpu  |-> cleared.cpu,
        rom  |-> [i \in DOMAIN cleared.rom |-> rom_bak[i]],
        disp |-> [disp_bak EXCEPT !.phosphor = [i \in PhosPix |-> 0]],
        snd  |-> ResetSnd(s),
        frm  |-> [f EXCEPT !.frame_count = 0]]

InitConc ==
    /\ snd = cop411_init
    /\ adev \in BOOLEAN
    /\ lock = "free" /\ ppc = "idle" /\ pval = 0 /\ cpc = "idle"
    /\ cpu = I8048Init /\ rom = <<>> /\ file = NoFile /\ ini = NoIni
    /\ disp = DispInit /\ frm = FrmInit
    /\ hist = [HistInit EXCEPT !.ref = Shared(cop411_init)]

\* A write in proto_state 0, 1 or 3: the P2.4 strobe test, then the branch
\* that assigns the protocol fields.
ProtoAssign(val) ==
    /\ ppc = "idle"
    /\ hist.nwr < MaxConcWrites
    /\ snd.proto_state /= 2
    /\ snd' = ProtoStep(snd, val)
    /\ pval' = val
    /\ hist' = [hist EXCEPT !.nwr = @ + 1]
    /\ disp' = LedStrobe(disp, frm.prev_p2, val)
    /\ frm' = [frm EXCEPT !.prev_p2 = val]
    /\ UNCHANGED <<adev, lock, ppc, cpc, cpu, rom, file, ini>>

\* A write in proto_state 2: the P2.4 strobe test, then up to the return
\* of SDL_LockAudioDevice.
ProdLock(val) ==
    /\ ppc = "idle"
    /\ hist.nwr < MaxConcWrites
    /\ snd.proto_state = 2
    /\ MayLock(adev, lock)
    /\ lock' = IF adev THEN "prod" ELSE lock
    /\ ppc' = "cmd"
    /\ pval' = val
    /\ hist' = [hist EXCEPT !.nwr = @ + 1]
    /\ disp' = LedStrobe(disp, frm.prev_p2, val)
    /\ frm' = [frm EXCEPT !.prev_p2 = val]
    /\ UNCHANGED <<snd, adev, cpc, cpu, rom, file, ini>>

\* cop411_command, first part.
CmdHead ==
    /\ ppc = "cmd"
    /\ snd' = CommandHead(snd, ProtoCmdByte(snd, pval))
    /\ ppc' = "cmd2"
    /\ UNCHANGED <<adev, lock, pval, cpc, cpu, rom, file, ini, disp, frm, hist>>

\* cop411_command, second part.
CmdTail ==
    /\ ppc = "cmd2"
    /\ snd' = CommandTail(snd, ProtoCmdByte(snd, pval))
    /\ ppc' = "unlock"
    /\ hist' = [hist EXCEPT !.ndisp = @ + 1,
                            !.last = ProtoCmdByte(snd, pval),
                            !.ref = Shared(cop411_command(@, ProtoCmdByte(snd, pval)))]
    /\ UNCHANGED <<adev, lock, pval, cpc, cpu, rom, file, ini, disp, frm>>

\* if (av->adev) SDL_UnlockAudioDevice(...).
ProdUnlock ==
    /\ ppc = "unlock"
    /\ lock' = IF adev THEN "free" ELSE lock
    /\ ppc' = "post"
    /\ UNCHANGED <<snd, adev, pval, cpc, cpu, rom, file, ini, disp, frm, hist>>

\* av->snd.proto_state = 0 (closing zero) or 3, after the unlock.
ProdPost ==
    /\ ppc = "post"
    /\ snd' = [snd EXCEPT !.proto_state = IF pval = 0 THEN 0 ELSE 3]
    /\ ppc' = "idle"
    /\ UNCHANGED <<adev, lock, pval, cpc, cpu, rom, file, ini, disp, frm, hist>>

\* av_reset up to the return of SDL_LockAudioDevice.
ResetLock ==
    /\ ppc = "idle"
    /\ hist.nrst < MaxResets
    /\ MayLock(adev, lock)
    /\ lock' = IF adev THEN "prod" ELSE lock
    /\ ppc' = "rst"
    /\ LET r == av_reset(cpu, rom, disp, snd, frm) IN
         cpu' = r.cpu /\ rom' = r.rom /\ disp' = r.disp
    /\ hist' = [hist EXCEPT !.nrst = @ + 1]
    /\ UNCHANGED <<snd, adev, pval, cpc, file, ini, frm>>

\* cop411_init and the restore of the control register.
ResetBody ==
    /\ ppc = "rst"
    /\ snd' = av_reset(cpu, rom, disp, snd, frm).snd
    /\ ppc' = "rstunlock"
    /\ hist' = [hist EXCEPT !.ref = Shared(ResetSnd(@))]
    /\ UNCHANGED <<adev, lock, pval, cpc, cpu, rom, file, ini, disp, frm>>

ResetUnlock ==
    /\ ppc = "rstunlock"
    /\ lock' = IF adev THEN "free" ELSE lock
    /\ ppc' = "idle"
    /\ frm' = av_reset(cpu, rom, disp, snd, frm).frm
    /\ UNCHANGED <<snd, adev, pval, cpc, cpu, rom, file, ini, disp, hist>>

\* SDL's audio thread takes the device lock before it calls audio_cb.
CbLock ==
    /\ adev
    /\ cpc = "idle"
    /\ hist.ncb < MaxConcCb
    /\ lock = "free"
    /\ lock' = "cons"
    /\ cpc' = "body"
    /\ hist' = [hist EXCEPT !.ncb = @ + 1]
    /\ UNCHANGED <<snd, adev, ppc, pval, cpu, rom, file, ini, disp, frm>>

\* audio_cb: AUDIO_SAMPLES calls of cop411_sample.
CbBody ==
    /\ cpc = "body"
    /\ snd' = RunSamples(snd, AUDIO_SAMPLES, 0)[1]
    /\ cpc' = "unlock"
    /\ hist' = [hist EXCEPT !.ref = RunSamples(@, AUDIO_SAMPLES, 0)[1]]
    /\ UNCHANGED <<adev, lock, ppc, pval, cpu, rom, file, ini, disp, frm>>

\* SDL releases the device lock when audio_cb returns.
CbUnlock ==
    /\ cpc = "unlock"
    /\ lock' = "free"
    /\ cpc' = "idle"
    /\ UNCHANGED <<snd, adev, ppc, pval, cpu, rom, file, ini, disp, frm, hist>>

NextConc ==
    \/ \E val \in ConcVals : ProtoAssign(val)
    \/ \E val \in ConcVals : ProdLock(val)
    \/ CmdHead
    \/ CmdTail
    \/ ProdUnlock
    \/ ProdPost
    \/ ResetLock
    \/ ResetBody
    \/ ResetUnlock
    \/ CbLock
    \/ CbBody
    \/ CbUnlock

SpecConc == InitConc /\ [][NextConc]_vars

\* C4: with an audio device open, a producer step that changes any field of
\* the sound engine is taken with the audio lock held by the producer.
C4_WritesUnderLock ==
    [][ (adev /\ cpc' = cpc /\ snd' /= snd) => lock = "prod" ]_vars

\* The producer inside cop411_command or av_reset's sound part.
ProdCritical == ppc \in {"cmd", "cmd2", "unlock", "rst", "rstunlock"}

\* C5: the callback never runs while the producer is inside a command, and
\* what it finds is the engine as the commands issued so far, applied whole
\* and in issue order between the callbacks, have left it.
C5_Serialized ==
    /\ cpc \in {"body", "unlock"} => ~ProdCritical
    /\ ~ProdCritical => Shared(snd) = hist.ref
    /\ lock = "cons" <=> cpc \in {"body", "unlock"}

\* The callback about to generate samples of the second command's sound,
\* with two callbacks started since the first handshake began.
C5_Witness ==
    /\ cpc = "body" /\ hist.ndisp = 2 /\ hist.ncb = 2
    /\ snd.active /\ hist.last \div 16 = 3

(***************************************************************************)
(* SpecCpu: the interpreter running a program of interrupt and timer       *)
(* instructions.  The main program sits at address 0x100 upward and may    *)
(* hold any of the specification's opcodes at each address (straight-line  *)
(* code: every address is fetched once); the interrupt handler at 0x007 is *)
(* the byte string rom, fixed for the run, and the subroutine at 0x040 is  *)
(* SubCode.  One step is one iteration of av_run_frame's loop: i8048_exec, *)
(* then the T1 edge detector.                                              *)
(***************************************************************************)
MaxExec  == 6
MaxEdges == 1

\* NOP, EI, DIS I, EN TCNTI, DIS TCNTI, STRT T, STRT CNT, STOP TCNT,
\* MOV T,A.
MainOps == {0, 5, 21, 37, 53, 85, 69, 101, 98}

\* Handlers: RETR; EI, RETR; NOP, RETR; EI, NOP, RETR.
Handlers == {<<147>>, <<5, 147>>, <<0, 147>>, <<5, 0, 147>>}

\* Address of the first instruction of the main program.
MainBase == 256

\* The subroutine the main program calls: NOP, RET at 0x040.
SubBase == 64
SubCode == <<0, 131>>

\* The CPU somewhere in its main program, interrupts not in service: the
\* timer stopped, running (STRT T) or counting T1 (STRT CNT), the timer
\* register near its wrap (MOV T,A loads any value), the prescaler, which
\* moves in timer mode only, at 0 or near its wrap; an interrupt may be
\* pending with interrupts disabled (posted by a counter overflow, then
\* DIS I); T1 high, as it is outside the frame's pulse.
InitCpu ==
    /\ snd = cop411_init /\ adev = FALSE
    /\ lock = "free" /\ ppc = "idle" /\ pval = 0 /\ cpc = "idle"
    /\ disp = DispInit /\ frm = FrmInit
    /\ hist = HistInit
    /\ rom \in Handlers /\ file = NoFile /\ ini = NoIni
    /\ \E mode \in {"off", "timer", "counter"}, tm \in {254, 255},
          pre \in {0, 30, 31}, te \in BOOLEAN, ie \in BOOLEAN,
          pd \in BOOLEAN :
         /\ pre /= 0 => mode = "timer"
         /\ pd => ~ie
         /\ cpu = [I8048Init EXCEPT !.PC = MainBase,
                                    !.timer = tm, !.tpre = pre,
                                    !.timer_en = (mode = "timer"),
                                    !.counter_en = (mode = "counter"),
                                    !.tcnti_en = te, !.irq_en = ie,
                                    !.irq_pend = pd, !.t1 = TRUE]

InHandler(c) == c.PC >= IrqVector /\ c.PC < IrqVector + Len(rom)

InSub(c) == c.PC >= SubBase /\ c.PC < SubBase + Len(SubCode)

\* The operand bytes the main program has after a two-byte opcode: the
\* subroutine's address after CALL, an immediate after MOV A,#n.
OpArgs(op) == IF IsCall(op) THEN {SubBase} ELSE IF op = 35 THEN {255} ELSE {0}

\* rom_rd at PC and PC+1: op and arg are the bytes there; ops are the
\* opcodes of the main program.
Fetched(c, ops, op, arg) ==
    IF InHandler(c)
    THEN LET i == c.PC - IrqVector + 1 IN
         /\ op = rom[i]
         /\ arg = IF TwoByte(op) /\ i < Len(rom) THEN rom[i + 1] ELSE 0
    ELSE IF InSub(c) THEN op = SubCode[c.PC - SubBase + 1] /\ arg = 0
    ELSE c.PC >= MainBase /\ op \in ops /\ arg \in OpArgs(op)

\* History after one instruction: whether it ended in a dispatch (only
\* the dispatch block moves SP after the instruction), and the contexts
\* saved and resumed.
HistExec(h, c, op, arg, new_t1) ==
    LET m     == ExecBody(c, op, arg)
        taken == i8048_exec(c, op, arg).SP /= m.SP
    IN [h EXCEPT !.op = "exec", !.val = op,
                 !.nexec = @ + 1,
                 !.nedge = IF c.t1 /\ ~new_t1 THEN @ + 1 ELSE @,
                 !.irq = taken,
                 !.at = IF taken THEN At(m) ELSE NoAt,
                 !.isave = IF taken THEN Ctx(m) ELSE @,
                 !.csave = IF IsCall(op)
                           THEN [Ctx(c) EXCEPT !.PC = (c.PC + 2) % 4096]
                           ELSE @,
                 !.ret = IF op \in {131, 147} THEN Ctx(m) ELSE @]

\* One iteration of the frame loop: the instruction at PC is op with
\* operand byte arg, and T1 is at new_t1 after it.
RunInstr(ops, op, arg, new_t1) ==
    /\ Fetched(cpu, ops, op, arg)
    /\ (cpu.t1 /\ ~new_t1) => hist.nedge < MaxEdges
    /\ cpu' = T1Edge(i8048_exec(cpu, op, arg), new_t1)
    /\ hist' = HistExec(hist, cpu, op, arg, new_t1)
    /\ UNCHANGED <<snd, adev, lock, ppc, pval, cpc, rom, file, ini, disp, frm>>

CpuStep(op, arg, new_t1) ==
    /\ hist.nexec < MaxExec
    /\ RunInstr(MainOps, op, arg, new_t1)

NextCpu ==
    \E op \in MainOps \cup {147}, arg \in {0}, new_t1 \in BOOLEAN :
        CpuStep(op, arg, new_t1)

SpecCpu == InitCpu /\ [][NextCpu]_vars

\* C10: the step that executes EI dispatches no interrupt: PC moves to the
\* next instruction and the in-interrupt latch keeps its value, also when
\* an interrupt is pending as EI executes.
C10_EiDelay ==
    [][ (hist'.op = "exec" /\ hist'.val = 5) =>
            /\ cpu'.PC = (cpu.PC + 1) % 4096
            /\ cpu'.in_irq = cpu.in_irq ]_vars

\* C11: an interrupt is dispatched only when one is pending, interrupts
\* are enabled and the in-interrupt latch is clear; the dispatch stores the
\* 12-bit PC and the PSW high nibble at iram[8 + 2*SP] and the byte after
\* it, increments SP modulo 8, sets PC to 0x007, sets the latch and clears
\* the enable and pending bits; and while the latch is set no instruction
\* other than RETR ends in a dispatch, so a handler that executes EI while
\* the timer overflows is not interrupted.
C11_Dispatch ==
    [][ /\ hist'.irq =>
              LET x  == hist'.at.ctx
                  a  == 8 + 2 * x.SP
                  hi == B2N(x.C) * 8 + B2N(x.AC) * 4 + B2N(x.F0) * 2 + B2N(x.BS)
              IN /\ hist'.at.pend /\ hist'.at.en /\ ~hist'.at.busy
                 /\ cpu'.iram[a] = x.PC % 256
                 /\ cpu'.iram[a + 1] = (x.PC \div 256) + hi * 16
                 /\ cpu'.SP = (x.SP + 1) % 8
                 /\ cpu'.PC = 7
                 /\ cpu'.in_irq /\ ~cpu'.irq_en /\ ~cpu'.irq_pend
        /\ (cpu.in_irq /\ hist'.op = "exec" /\ hist'.val /= 147) =>
              ~hist'.irq /\ cpu'.in_irq ]_vars

\* The handler of a dispatched interrupt has just executed EI, and the
\* timer wrapped from 0xFF to 0x00 on that instruction with the counter
\* interrupt enabled.
C11_Witness ==
    /\ hist.op = "exec" /\ hist.val = 5 /\ ~hist.irq
    /\ hist.isave /= NoCtx
    /\ cpu.in_irq /\ cpu.irq_en /\ cpu.tcnti_en
    /\ cpu.timer_en /\ cpu.timer = 0 /\ cpu.tpre = 0 /\ cpu.timer_ovf

\* The instruction just executed found the timer running in timer mode
\* with timer = 0xFF and prescaler = 31.
AtWrapPoint == hist'.op = "exec" /\ cpu.timer_en /\ cpu.timer = 255 /\ cpu.tpre = 31

\* C14 as stated: with the timer running, timer = 0xFF and prescaler = 31,
\* one more instruction of any opcode leaves timer = 0x00 and the overflow
\* latch set.
C14_AnyOpcode ==
    [][ AtWrapPoint => (cpu'.timer = 0 /\ cpu'.timer_ovf) ]_vars

\* C14 amended: with the timer running, timer = 0xFF and prescaler = 31,
\* one more instruction of any opcode other than STRT T, STRT CNT,
\* STOP TCNT and MOV T,A leaves timer = 0x00 and the overflow latch set.
C14_OtherOpcode ==
    [][ (AtWrapPoint /\ hist'.val \notin {85, 69, 101, 98}) =>
            (cpu'.timer = 0 /\ cpu'.timer_ovf) ]_vars

\* RETR, a two-cycle instruction, has just carried the prescaler from 31
\* into the timer, which wrapped.
C14_Witness ==
    /\ hist.op = "exec" /\ hist.val = 147
    /\ cpu.timer_en /\ cpu.timer = 0 /\ cpu.tpre = 1 /\ cpu.timer_ovf

\* C15: STRT T and STRT CNT exclude each other, and in a step that ends in
\* counter mode the timer register moves by exactly one when T1 went from
\* high to low across the instruction and not at all otherwise (the
\* prescaler stays at 0); when that increment wraps 0xFF to 0x00 the
\* overflow latch sets and an interrupt is posted exactly when the
\* counter-interrupt enable and the master enable are on and no interrupt
\* is in service.
C15_CounterMode ==
    [][ hist'.op = "exec" =>
          /\ ~(cpu'.timer_en /\ cpu'.counter_en)
          /\ cpu'.counter_en =>
                LET fall == cpu.t1 /\ ~cpu'.t1
                    base == IF hist'.val = 98 THEN cpu.A ELSE cpu.timer
                    wrap == fall /\ base = 255
                IN /\ cpu'.timer = (base + B2N(fall)) % 256
                   /\ cpu'.tpre = 0
                   /\ cpu'.timer_ovf <=> (wrap \/ cpu.timer_ovf)
                   /\ cpu'.irq_pend <=>
                         \/ wrap /\ cpu'.tcnti_en /\ cpu'.irq_en /\ ~cpu'.in_irq
                         \/ cpu.irq_pend /\ ~hist'.irq ]_vars

\* In counter mode a falling edge of T1 has wrapped the timer to 0x00 and
\* posted the interrupt.
C15_Witness ==
    /\ hist.op = "exec" /\ hist.nedge = 1 /\ ~cpu.t1
    /\ cpu.counter_en /\ cpu.timer = 0 /\ cpu.timer_ovf
    /\ cpu.tcnti_en /\ cpu.irq_en /\ cpu.irq_pend

(***************************************************************************)
(* SpecCall: the interpreter running a main program of flag instructions,  *)
(* CALL and EI, with the subroutine SubCode and an interrupt handler that  *)
(* changes the flags before RETR; the timer is about to wrap, so that the  *)
(* interrupt arrives in the main program or inside the subroutine.         *)
(***************************************************************************)
MaxCallExec == 6

\* NOP, CPL C, CPL F0, SEL RB1, CALL 0x0nn, EI.
CallOps == {0, 167, 149, 213, 20, 5}

\* CPL C, SEL RB1, RETR; CPL F0, ADD A,#0 (clears C and AC), RETR.
CallHandlers == {<<167, 213, 147>>, <<149, 3, 0, 147>>}

\* The timer running one or two instructions before its wrap with the
\* counter interrupt enabled; C, AC, F0, BS as earlier arithmetic and flag
\* instructions left them; SP at the bottom or the top of the stack.
InitCall ==
    /\ snd = cop411_init /\ adev = FALSE
    /\ lock = "free" /\ ppc = "idle" /\ pval = 0 /\ cpc = "idle"
    /\ disp = DispInit /\ frm = FrmInit
    /\ hist = HistInit
    /\ rom \in CallHandlers /\ file = NoFile /\ ini = NoIni
    /\ \E pre \in {29, 30, 31}, ie \in BOOLEAN, fl \in {0, 5, 10, 15},
          sp \in {0, 7} :
         cpu = [I8048Init EXCEPT !.PC = MainBase, !.SP = sp, !.t1 = TRUE,
                                 !.timer = 255, !.tpre = pre,
                                 !.timer_en = TRUE, !.tcnti_en = TRUE,
                                 !.irq_en = ie,
                                 !.C = (fl \div 8) % 2 = 1,
                                 !.AC = (fl \div 4) % 2 = 1,
                                 !.F0 = (fl \div 2) % 2 = 1,
                                 !.BS = fl % 2 = 1]

CallStep(op, arg) ==
    /\ hist.nexec < MaxCallExec
    /\ RunInstr(CallOps, op, arg, TRUE)

NextCall ==
    \E op \in CallOps \cup {3, 131, 147}, arg \in {0, SubBase} :
        CallStep(op, arg)

SpecCall == InitCall /\ [][NextCall]_vars

\* C12: RETR resumes, at the PC the dispatch interrupted, with the C, AC,
\* F0, BS and SP of that moment, whatever the handler did to the flags, and
\* leaves the in-interrupt latch clear and interrupts enabled; RET resumes
\* at the address after the CALL with the SP the CALL found.
C12_Return ==
    [][ /\ (hist'.op = "exec" /\ hist'.val = 147 /\ cpu.in_irq) =>
              /\ hist'.ret = hist.isave
              /\ IF hist'.irq THEN hist'.at.en /\ ~hist'.at.busy
                              ELSE cpu'.irq_en /\ ~cpu'.in_irq
              /\ ~hist'.irq => Ctx(cpu') = hist.isave
        /\ (hist'.op = "exec" /\ hist'.val = 131) =>
              /\ hist'.ret.PC = hist.csave.PC
              /\ hist'.ret.SP = hist.csave.SP
              /\ ~hist'.irq => cpu'.PC = hist.csave.PC /\ cpu'.SP = hist.csave.SP
      ]_vars

\* The subroutine has returned after an interrupt was serviced inside it
\* whose handler complemented the carry that is now set again.
C12_Witness ==
    /\ hist.op = "exec" /\ hist.val = 131 /\ ~hist.irq
    /\ hist.isave.SP = (hist.csave.SP + 1) % 8
    /\ rom[1] = 167 /\ hist.isave.C /\ cpu.C
    /\ cpu.PC = hist.csave.PC /\ cpu.SP = hist.csave.SP

(***************************************************************************)
(* SpecTimer: the timer running in timer mode under a program of one- and  *)
(* two-cycle instructions that leave the timer alone.                      *)
(***************************************************************************)
MaxCycles == 66

\* NOP (1 cycle), MOV A,#n (2 cycles).
TimerOps == {0, 35}

\* EI, NOP, RETR; NOP, NOP, RETR.
TimerHandlers == {<<5, 0, 147>>, <<0, 0, 147>>}

\* STRT T done, the timer register and the prescaler loaded; the CPU in
\* its main program, or at the first instruction of the handler of an
\* interrupt dispatched from address MainBase.
InitTimer ==
    /\ snd = cop411_init /\ adev = FALSE
    /\ lock = "free" /\ ppc = "idle" /\ pval = 0 /\ cpc = "idle"
    /\ disp = DispInit /\ frm = FrmInit
    /\ rom \in TimerHandlers /\ file = NoFile /\ ini = NoIni
    /\ \E tm \in {254, 255}, pre \in {0, 31}, te \in BOOLEAN,
          ie \in BOOLEAN, busy \in BOOLEAN :
         /\ busy => ~ie
         /\ hist = [HistInit EXCEPT !.t0 = tm, !.p0 = pre]
         /\ cpu = IF busy
                  THEN [push8(bpsw([I8048Init EXCEPT
                                       !.PC = MainBase, !.t1 = TRUE,
                                       !.timer = tm, !.tpre = pre,
                                       !.timer_en = TRUE, !.tcnti_en = te,
                                       !.in_irq = TRUE]))
                          EXCEPT !.PC = IrqVector]
                  ELSE [I8048Init EXCEPT !.PC = MainBase, !.t1 = TRUE,
                                         !.timer = tm, !.tpre = pre,
                                         !.timer_en = TRUE, !.tcnti_en = te,
                                         !.irq_en = ie]

TimerStep(op, arg) ==
    /\ cpu.cycles < MaxCycles
    /\ RunInstr(TimerOps, op, arg, TRUE)

NextTimer ==
    \E op \in TimerOps \cup {5, 147}, arg \in {0, 255} : TimerStep(op, arg)

SpecTimer == InitTimer /\ [][NextTimer]_vars

\* Prescaler ticks since the start, after n cycles.
Ticks(h, n) == (h.p0 + n) \div 32

\* C13: in timer mode, after instructions totalling N cycles the timer is
\* (timer0 + floor((prescaler0 + N) / 32)) mod 256 and the prescaler is in
\* 0..31; the overflow latch is set exactly when the timer has wrapped from
\* 0xFF to 0x00; and an interrupt is posted in a step exactly when the
\* timer wraps in it with the counter-interrupt enable and the master
\* enable on and no interrupt in service.
C13_TimerMode ==
    [][ hist'.op = "exec" =>
          LET n     == cpu'.cycles
              wrap  == cpu.timer = 255 /\ cpu'.timer = 0
              en    == cpu.irq_en \/ hist'.val \in {5, 147}
              busy  == cpu.in_irq /\ hist'.val /= 147
          IN /\ cpu'.timer = (hist.t0 + Ticks(hist, n)) % 256
             /\ cpu'.tpre = (hist.p0 + n) % 32
             /\ cpu'.tpre \in 0..31
             /\ cpu'.timer_ovf <=> (hist.t0 + Ticks(hist, n) >= 256)
             /\ (cpu'.timer_ovf /\ ~cpu.timer_ovf) <=> wrap
             /\ (hist'.irq \/ cpu'.irq_pend)
                    <=> (wrap /\ cpu.tcnti_en /\ en /\ ~busy) ]_vars

\* Timer 0xFE, prescaler 0, then 64 cycles of NOP: the timer is 0x00 with
\* the overflow latch set.
C13_Witness ==
    /\ hist.t0 = 254 /\ hist.p0 = 0 /\ cpu.cycles = 64
    /\ hist.nexec = 64 /\ hist.val = 0
    /\ cpu.timer = 0 /\ cpu.timer_ovf

(***************************************************************************)
(* SpecFrame: frame steps from power-up, the program an arbitrary stream   *)
(* of one- and two-cycle instructions that write no port.                  *)
(***************************************************************************)
MaxFrames == 2

InitFrame ==
    /\ snd = cop411_init /\ adev = FALSE
    /\ IdleRest
    /\ hist = HistInit

\* History after the loop body ran with outcome r on display d, which the
\* instruction left with led_col at lc0 before and the given one after.
HistFrame(h, r, d, lc0, name, val) ==
    LET commit == d.led_col /= lc0
        led1   == IF commit /\ lc0 >= 0 /\ lc0 < SW THEN h.led \cup {lc0} ELSE h.led
        vram1  == IF commit THEN h.vram \ {lc0} ELSE h.vram
    IN [h EXCEPT !.op = name, !.val = val,
                 !.led = IF r.cap >= 0 THEN led1 \ {r.cap} ELSE led1,
                 !.vram = IF r.cap >= 0 THEN vram1 \cup {r.cap} ELSE vram1]

\* Entry of av_run_frame.
FrameBegin ==
    /\ frm.fpc = "idle"
    /\ hist.nfr < MaxFrames
    /\ frm' = FrameHead(frm)
    /\ disp' = FrameHeadDisp(disp)
    /\ hist' = [hist EXCEPT !.op = "begin", !.nfr = @ + 1,
                            !.vram = {}, !.led = {}]
    /\ UNCHANGED <<snd, adev, lock, ppc, pval, cpc, cpu, rom, file, ini>>

\* One iteration of the loop around an instruction of cy cycles.
FrameInstr(cy) ==
    /\ frm.fpc = "loop"
    /\ frm.elapsed < CYCLES_PER_FR
    /\ LET r == FrameBody(frm, disp, ExecOther(cpu, cy), cy) IN
         /\ frm' = r.frm
         /\ disp' = r.disp
         /\ cpu' = r.cpu
         /\ hist' = HistFrame(hist, r, disp, disp.led_col, "instr", cy)
    /\ UNCHANGED <<snd, adev, lock, ppc, pval, cpc, rom, file, ini>>

\* The loop has ended: fallback capture, disp_update, frame_count++,
\* rewind_push.
FrameEnd ==
    /\ frm.fpc = "loop"
    /\ frm.elapsed >= CYCLES_PER_FR
    /\ LET r == FrameTail(frm, disp, cpu.xram) IN
         /\ frm' = rewind_push(r.frm, cpu, r.disp, snd)
         /\ disp' = r.disp
         /\ hist' = [hist EXCEPT
                        !.op = "end",
                        !.upd = [cols |-> Min(r.shown.cols_captured, SW),
                                 vram |-> IF r.full THEN 0..(SW - 1) ELSE hist.vram,
                                 led |-> IF r.full THEN {} ELSE hist.led,
                                 active |-> disp.led_active]]
    /\ UNCHANGED <<snd, adev, lock, ppc, pval, cpc, cpu, rom, file, ini>>

NextFrame ==
    \/ FrameBegin
    \/ \E cy \in {1, 2} : FrameInstr(cy)
    \/ FrameEnd

SpecFrame == InitFrame /\ [][NextFrame]_vars

\* C16: in every frame step, after each instruction T1 is low exactly
\* while the elapsed count is in [t1_start, t1_end), and the display sync
\* has been recorded exactly when the pulse has ended, with sync_cycle the
\* elapsed count at that low-to-high edge (at least t1_end, and less than
\* two cycles past it) and led_col reset to 0 in that step; also in the
\* first frame after power-up.
C16_FrameSync ==
    [][ hist'.op = "instr" =>
          /\ cpu'.t1 <=> ~(frm'.elapsed >= frm.t1_pulse_start
                            /\ frm'.elapsed < frm.t1_pulse_end)
          /\ frm'.disp_sync_seen <=> frm'.elapsed >= frm.t1_pulse_end
          /\ frm'.disp_sync_seen =>
                /\ frm'.disp_sync_cycle >= frm.t1_pulse_end
                /\ frm'.disp_sync_cycle <= frm.t1_pulse_end + 1
          /\ (~frm.disp_sync_seen /\ frm'.disp_sync_seen) =>
                /\ frm'.disp_sync_cycle = frm'.elapsed
                /\ disp'.led_col = 0 ]_vars

\* C17: whenever a frame step has returned, the CPU cycle counter is the
\* number of frames run times 48,889.
C17_FrameCycles ==
    frm.fpc = "idle" => cpu.cycles = frm.frame_count * CYCLES_PER_FR

(***************************************************************************)
(* SpecDisp: frame steps under a program that waits and may run the        *)
(* display routine: per column, five times OUTL P2,A selecting an LED      *)
(* register and MOVX A,@R0 latching a byte into it, then OUTL P2,A raising *)
(* P2.4 and a second OUTL P2,A holding it high.  The routine starts at the *)
(* top of the frame or on the sync edge and outputs one column or SW + 1   *)
(* columns.  Once T1 is back high and the mid-frame scan can capture       *)
(* nothing more, the NOPs that fill the rest of the frame are taken in one *)
(* step.                                                                   *)
(***************************************************************************)
\* P2 values that select LED register i with P2.4 low, and the strobe.
LedSel(i) == <<128, 64, 192, 32, 160>>[i + 1]
StrobeVal == 176
HoldVal == 240

\* Instructions of the routine per column.
RoutineLen == 12

\* The byte the routine's MOVX reads for register i of its column k.
RoutineByte(k, i) == (11 * k + i + 1) % 256

\* Columns the routine outputs: "one" or "all".
RoutineCols(pc) == IF pc = "one" THEN 1 ELSE SW + 1

\* Instruction n of the routine.
ProgInstr(n) ==
    LET j == n % RoutineLen
        k == n \div RoutineLen
    IN IF j = 11 THEN [op |-> "out", val |-> HoldVal]
       ELSE IF j = 10 THEN [op |-> "out", val |-> StrobeVal]
       ELSE IF j % 2 = 0 THEN [op |-> "out", val |-> LedSel(j \div 2)]
       ELSE [op |-> "movx", val |-> RoutineByte(k, j \div 2)]

\* Power-up, or a machine that has run frames before (T1 high); mid-frame
\* scan on or toggled off.
InitDisp ==
    /\ snd = cop411_init /\ adev = FALSE
    /\ lock = "free" /\ ppc = "wait" /\ pval = 0 /\ cpc = "idle"
    /\ rom = <<>> /\ file = NoFile /\ ini = NoIni
    /\ disp = DispInit
    /\ hist = HistInit
    /\ \E t \in BOOLEAN, mf \in BOOLEAN :
         /\ cpu = [I8048Init EXCEPT !.t1 = t, !.xram = VideoFilled]
         /\ frm = [FrmInit EXCEPT !.midframe_scan = mf]

\* Nothing but elapsed and the cycle counter can change until the loop
\* ends, as long as the program writes no port: T1 stays high, the sync
\* has been seen, the mid-frame scan is off or past its window.
Quiet ==
    /\ frm.fpc = "loop" /\ frm.elapsed < CYCLES_PER_FR
    /\ cpu.t1 /\ frm.elapsed >= frm.t1_pulse_end /\ frm.disp_sync_seen
    /\ \/ ~frm.midframe_scan
       \/ disp.led_active
       \/ frm.elapsed - frm.disp_sync_cycle > DISP_OUTPUT_CYCLES

\* The program spins on an instruction of cy cycles that writes no port.
DispWait(cy) ==
    /\ ppc \in {"wait", "done"}
    /\ ~Quiet
    /\ FrameInstr(cy)

\* The routine may start at the top of the frame or on the sync edge.
StartOK ==
    \/ frm.elapsed = 0
    \/ frm.disp_sync_seen /\ frm.elapsed = frm.disp_sync_cycle

\* The next instruction of the display routine: OUTL P2,A reaches
\* av_port_write, MOVX A,@R0 reaches av_led_latch; both take two cycles.
DispRun(pc) ==
    /\ frm.fpc = "loop" /\ frm.elapsed < CYCLES_PER_FR
    /\ pc \in {"one", "all"}
    /\ IF ppc = "wait" THEN StartOK /\ pval = 0 ELSE ppc = pc
    /\ LET ins == ProgInstr(pval)
           out == ins.op = "out"
           c1  == ExecOther(IF out THEN [cpu EXCEPT !.P2 = ins.val]
                                   ELSE [cpu EXCEPT !.A = ins.val], 2)
           d1  == IF out THEN LedStrobe(disp, frm.prev_p2, ins.val)
                         ELSE av_led_latch(disp, cpu.P2, ins.val)
           f1  == IF out THEN [frm EXCEPT !.prev_p2 = ins.val] ELSE frm
           r   == FrameBody(f1, d1, c1, 2)
       IN /\ snd' = IF out THEN av_port_write(snd, ins.val).snd ELSE snd
          /\ frm' = r.frm
          /\ disp' = r.disp
          /\ cpu' = r.cpu
          /\ hist' = HistFrame(hist, r, d1, disp.led_col, ins.op, ins.val)
    /\ IF pval + 1 = RoutineLen * RoutineCols(pc)
       THEN ppc' = "done" /\ pval' = 0
       ELSE ppc' = pc /\ pval' = pval + 1
    /\ UNCHANGED <<adev, lock, cpc, rom, file, ini>>

\* The NOPs that fill the rest of the frame.
DispQuiet ==
    /\ ppc \in {"wait", "done"}
    /\ Quiet
    /\ frm' = [frm EXCEPT !.elapsed = CYCLES_PER_FR]
    /\ cpu' = [cpu EXCEPT !.cycles = @ + (CYCLES_PER_FR - frm.elapsed)]
    /\ ppc' = "wait"
    /\ hist' = [hist EXCEPT !.op = "quiet", !.val = 0]
    /\ UNCHANGED <<snd, adev, lock, pval, cpc, rom, file, ini, disp>>

NextDisp ==
    \/ FrameBegin
    \/ \E cy \in {1, 2} : DispWait(cy)
    \/ \E pc \in {"one", "all"} : DispRun(pc)
    \/ DispQuiet
    \/ FrameEnd

SpecDisp == InitDisp /\ [][NextDisp]_vars

\* C18: a port-2 write latches the five LED-register bytes into snapshot
\* column led_col and increments led_col exactly when bit 4 of the value
\* written is 1 and bit 4 of the value written before it is 0 (led_col is
\* then 0 if the sync edge falls in the same step); a commit sets
\* led_active, which every frame starts with clear; a commit at led_col
\* >= 150 writes no column; cols_captured never exceeds 150.
C18_Strobe ==
    [][ /\ hist'.op = "out" =>
              LET edge == P24(hist'.val) /\ ~P24(frm.prev_p2)
                  rose == ~frm.disp_sync_seen /\ frm'.disp_sync_seen
                  col  == disp.led_col
              IN /\ frm'.prev_p2 = hist'.val
                 /\ disp'.led_col = IF rose THEN 0 ELSE col + B2N(edge)
                 /\ edge => disp'.led_active
                 /\ ~edge => disp'.led_active = disp.led_active
                 /\ (edge /\ col < SW) =>
                       /\ disp'.col_data[col] = disp.led_reg
                       /\ disp'.cols_captured >= col + 1
                       /\ \A c \in 0..(SW - 1) \ {col} :
                              disp'.col_data[c] = disp.col_data[c]
                 /\ (edge /\ col >= SW) =>
                       /\ disp'.col_data = disp.col_data
                       /\ disp'.cols_captured = disp.cols_captured
                 /\ (~edge /\ disp.led_active) =>
                       /\ disp'.col_data = disp.col_data
                       /\ disp'.cols_captured = disp.cols_captured
        /\ hist'.op = "begin" => ~disp'.led_active /\ disp'.led_col = 0
        /\ disp'.cols_captured <= SW ]_vars

\* The routine has just strobed with led_col at 150: led_col is 151 and no
\* column beyond the 150 was written.
C18_Witness ==
    /\ hist.op = "out" /\ hist.val = StrobeVal
    /\ disp.led_col = SW + 1 /\ disp.led_active
    /\ disp.cols_captured = SW

\* C19: the end-of-frame update of a frame that saw a P2.4 commit is given
\* no column captured from video RAM in that frame, and the update of a
\* frame without commit is given columns captured from video RAM only.
C19_Exclusive ==
    hist.op = "end" =>
        IF hist.upd.active
        THEN hist.upd.vram \cap 0..(hist.upd.cols - 1) = {}
        ELSE /\ hist.upd.led = {}
             /\ hist.upd.vram = 0..(hist.upd.cols - 1)

MaxPhosFrames == 3
MaxLatch == 2
PhosDecays == {0, 5, 45, 100}
PhosRegs == {<<0, 0, 0, 0, 0>>, <<165, 90, 255, 0, 15>>}

InitPhos ==
    /\ snd = cop411_init /\ adev = FALSE
    /\ lock = "free" /\ ppc = "idle" /\ pval = 0 /\ cpc = "idle"
    /\ cpu = [I8048Init EXCEPT !.xram = VideoFilled] /\ rom = <<>> /\ file = NoFile /\ ini = NoIni
    /\ disp = DispInit
    /\ hist = HistInit
    /\ \E dc \in PhosDecays : frm = [FrmInit EXCEPT !.cfg_phosphor = dc]

\* av_run_frame up to its loop.
PhosBegin ==
    /\ frm.fpc = "idle" /\ frm.frame_count < MaxPhosFrames
    /\ frm' = FrameHead(frm)
    /\ disp' = FrameHeadDisp(disp)
    /\ hist' = [hist EXCEPT !.op = "begin", !.val = 0]
    /\ UNCHANGED <<snd, adev, lock, ppc, pval, cpc, cpu, rom, file, ini>>

\* The LED registers hold regs and a P2.4 rising edge commits them.
PhosLatch(regs) ==
    /\ frm.fpc = "loop" /\ disp.led_col < MaxLatch
    /\ disp' = disp_latch_led_column([disp EXCEPT !.led_reg = regs])
    /\ hist' = [hist EXCEPT !.op = "latch", !.val = 0]
    /\ UNCHANGED <<snd, adev, lock, ppc, pval, cpc, cpu, rom, file, ini, frm>>

\* The mid-frame scan captures column col from video RAM.
PhosCapture(col) ==
    /\ frm.fpc = "loop" /\ ~disp.led_active
    /\ col >= disp.cols_captured
    /\ disp' = disp_capture_column(disp, cpu.xram, col)
    /\ hist' = [hist EXCEPT !.op = "capture", !.val = col]
    /\ UNCHANGED <<snd, adev, lock, ppc, pval, cpc, cpu, rom, file, ini, frm>>

\* av_run_frame after its loop, rewind_push included.
PhosUpdate ==
    /\ frm.fpc = "loop"
    /\ LET r == FrameTail(frm, disp, cpu.xram)
       IN /\ frm' = rewind_push(r.frm, cpu, r.disp, snd)
          /\ disp' = r.disp
    /\ hist' = [hist EXCEPT !.op = "update", !.val = frm.cfg_phosphor]
    /\ UNCHANGED <<snd, adev, lock, ppc, pval, cpc, cpu, rom, file, ini>>

NextPhos ==
    \/ PhosBegin
    \/ \E regs \in PhosRegs : PhosLatch(regs)
    \/ \E col \in 0..(MaxLatch - 1) : PhosCapture(col)
    \/ PhosUpdate

SpecPhos == InitPhos /\ [][NextPhos]_vars

\* C21: after every end-of-frame update with decay constant d in [0,1]
\* every phosphor value lies in [0,1]; the pixel (col, y) is 1.0 if col is
\* below the captured-column count and bit 7 - y mod 8 of byte 4 - y div 8
\* of the column is clear, and otherwise its previous value times d, set
\* to 0 when that is below 0.01; the update resets the captured-column
\* count to 0.
C21_Phosphor ==
    [][ hist'.op = "update" =>
          /\ disp'.cols_captured = 0
          /\ \A col \in 0..(PhosCols - 1), y \in 0..(SH - 1) :
                LET i   == col + y * SW
                    val == disp.col_data[col][(4 - (y \div 8)) + 1]
                    q   == (disp.phosphor[i] * hist'.val) \div DecayUnit
                IN /\ disp'.phosphor[i] \in 0..PhosOne
                   /\ disp'.phosphor[i] =
                        IF col < disp.cols_captured /\ BitOf(val, 7 - (y % 8)) = 0
                        THEN PhosOne
                        ELSE IF q < PhosEps THEN 0 ELSE q ]_vars

\* An update with decay 0.45 has left a pixel lit in the frame before at
\* 0.45 and another pixel newly lit at 1.0.
C21_Witness ==
    /\ hist.op = "update" /\ hist.val = DEF_PHOSPHOR
    /\ \E i \in PhosPix : disp.phosphor[i] = (PhosOne * DEF_PHOSPHOR) \div DecayUnit
    /\ \E i \in PhosPix : disp.phosphor[i] = PhosOne
    /\ disp.cols_captured = 0

(***************************************************************************)
(* SpecMem: the external-RAM instructions MOVX A,@Rr and MOVX @Rr,A and    *)
(* MOV A,#n, executed from register, port and RAM contents that earlier    *)
(* instructions can have left.                                             *)
(***************************************************************************)
\* Index in iram of register r of the selected bank.
R(c, r) == (IF c.BS THEN 24 ELSE 0) + (r % 8)

\* Mutant: the bank bits of P1 are left out of the address.
XramIndex_nobank(c, addr) == addr % XRAM_SZ

\* full & (XRAM_SZ-1), full = ((P1 & 0x03) << 8) | addr.
XramIndex(c, addr) == ((c.P1 % 4) * 256 + addr) % XRAM_SZ

xram_rd(c, addr) == c.xram[XramIndex(c, addr)]

xram_wr(c, addr, val) == [c EXCEPT !.xram[XramIndex(c, addr)] = val]

\* case 0x80, 0x81 and case 0x90, 0x91 of i8048_exec, after the opcode
\* fetch: the CPU and the display as the instruction leaves them.
IsMovxRd(op) == op \in {128, 129}
IsMovxWr(op) == op \in {144, 145}

ExecMovx(c, d, op) ==
    IF IsMovxRd(op)
    THEN LET xval == xram_rd(c, c.iram[R(c, op % 2)])
         IN [cpu |-> [c EXCEPT !.A = xval],
             disp |-> av_led_latch(d, c.P2, xval)]
    ELSE [cpu |-> xram_wr(c, c.iram[R(c, op % 2)], c.A), disp |-> d]

MaxMemExec == 3
MemP1 == {3, 248, 249}
MemP2 == {128, 160, 224, 31, 80}
MemRegs == {85, 255}
MemAcc == {18, 171}

\* A CPU that has run code: A, R0, R1 of either bank, P1 and P2 loaded,
\* external RAM written.
InitMem ==
    /\ snd = cop411_init /\ adev = FALSE
    /\ lock = "free" /\ ppc = "idle" /\ pval = 0 /\ cpc = "idle"
    /\ rom = <<>> /\ file = NoFile /\ ini = NoIni
    /\ disp = DispInit
    /\ frm = FrmInit
    /\ hist = HistInit
    /\ \E a \in MemAcc, r0 \in MemRegs, r1 \in MemRegs, p1 \in MemP1,
          p2 \in MemP2, bs \in BOOLEAN :
         cpu = [I8048Init EXCEPT !.A = a, !.BS = bs, !.P1 = p1, !.P2 = p2,
                                 !.PC = MainBase, !.t1 = TRUE,
                                 !.iram[R([BS |-> bs], 0)] = r0,
                                 !.iram[R([BS |-> bs], 1)] = r1,
                                 !.xram = VideoFilled]

\* i8048_exec on a MOVX opcode.
MemMovx(op) ==
    /\ hist.nexec < MaxMemExec
    /\ LET r == ExecMovx(ft(cpu), disp, op)
       IN /\ cpu' = ExecOther(r.cpu, 2)
          /\ disp' = r.disp
    /\ hist' = [hist EXCEPT !.op = "movx", !.val = op, !.nexec = @ + 1]
    /\ UNCHANGED <<snd, adev, lock, ppc, pval, cpc, rom, file, ini, frm>>

\* i8048_exec on MOV A,#n.
MemMov(n) ==
    /\ hist.nexec < MaxMemExec
    /\ cpu' = i8048_exec(cpu, 35, n)
    /\ hist' = [hist EXCEPT !.op = "mov", !.val = n, !.nexec = @ + 1]
    /\ UNCHANGED <<snd, adev, lock, ppc, pval, cpc, rom, file, ini, disp, frm>>

NextMem ==
    \/ \E op \in {128, 129, 144, 145} : MemMovx(op)
    \/ \E n \in MemAcc : MemMov(n)

SpecMem == InitMem /\ [][NextMem]_vars

\* C22: MOVX A,@Rr reads external RAM at ((P1 & 3) << 8) | Rr into A and
\* latches that byte into the LED register decode(P2) selects, no LED
\* register changing when the decode is invalid; MOVX @Rr,A writes A at the
\* same index and changes no LED register; with P1 = 0x03 and Rr = 0x55
\* the index is 0x355.
C22_Movx ==
    [][ hist'.op = "movx" =>
          LET op  == hist'.val
              rr  == cpu.iram[(IF cpu.BS THEN 24 ELSE 0) + (op % 2)]
              idx == (cpu.P1 % 4) * 256 + rr
              ri  == led_reg_decode(cpu.P2)
          IN /\ (cpu.P1 = 3 /\ rr = 85) => idx = 853
             /\ op \in {128, 129} =>
                   /\ cpu'.A = cpu.xram[idx]
                   /\ cpu'.xram = cpu.xram
                   /\ disp'.led_reg =
                        IF ri >= 0
                        THEN [disp.led_reg EXCEPT ![ri + 1] = cpu.xram[idx]]
                        ELSE disp.led_reg
             /\ op \in {144, 145} =>
                   /\ cpu'.xram = [cpu.xram EXCEPT ![idx] = cpu.A]
                   /\ cpu'.A = cpu.A
                   /\ disp'.led_reg = disp.led_reg ]_vars

\* MOVX A,@R0 has read offset 0x355 (P1 = 0x03, R0 = 0x55) after a MOVX
\* @R0,A stored 0xAB there, and the byte is in LED register 0.
C22_Witness ==
    /\ hist.op = "movx" /\ hist.val = 128
    /\ cpu.P1 = 3 /\ cpu.iram[R(cpu, 0)] = 85
    /\ cpu.P2 = 128
    /\ cpu.xram[853] = 171 /\ cpu.A = 171
    /\ disp.led_reg[1] = 171

(***************************************************************************)
(* SpecLed: MOVX A,@Rr under every P2 value a program can have output.     *)
(***************************************************************************)
InitLed ==
    /\ snd = cop411_init /\ adev = FALSE
    /\ lock = "free" /\ ppc = "idle" /\ pval = 0 /\ cpc = "idle"
    /\ rom = <<>> /\ file = NoFile /\ ini = NoIni
    /\ disp = DispInit
    /\ frm = FrmInit
    /\ hist = HistInit
    /\ \E p2 \in Byte :
         cpu = [I8048Init EXCEPT !.P1 = 3, !.P2 = p2,
                                 !.PC = MainBase, !.t1 = TRUE,
                                 !.iram[0] = 85,
                                 !.xram = VideoFilled]

NextLed == \E op \in {128, 129} : MemMovx(op)

SpecLed == InitLed /\ [][NextLed]_vars

\* The LED registers after a latch of data into register ri, or after a
\* suppressed latch (ri = -1).
LedAfter(regs, ri, data) ==
    [i \in 1..5 |-> IF i = ri + 1 THEN data ELSE regs[i]]

C24_Boundary ==
    [][ hist'.op = "movx" =>
          /\ cpu.P2 = 160 => disp'.led_reg = LedAfter(disp.led_reg, 0, cpu'.A)
          /\ cpu.P2 = 224 => disp'.led_reg = disp.led_reg ]_vars

\* C24 amended: with P2 = 0xA0 the latch goes to LED register 4, with
\* P2 = 0xE0 it is suppressed.
C24_BoundaryFour ==
    [][ hist'.op = "movx" =>
          /\ cpu.P2 = 160 => disp'.led_reg = LedAfter(disp.led_reg, 4, cpu'.A)
          /\ cpu.P2 = 224 => disp'.led_reg = disp.led_reg ]_vars

\* A read under P2 = 0xA0 has latched its byte into LED register 4.
C24_Witness ==
    /\ hist.op = "movx" /\ hist.nexec = 1 /\ cpu.P2 = 160
    /\ cpu.A /= 255
    /\ disp.led_reg = <<255, 255, 255, 255, cpu.A>>

(***************************************************************************)
(* SpecReset: soft reset of a machine that has run code and played sound.  *)
(***************************************************************************)
MaxResetWrites == 4
MaxResetExec   == 2

\* Port-2 values: the reset pulse 0xC0, then 0xE0 and 0x00, from which the
\* tones 0xE0 and 0xEE and the control bytes 0x00 and 0x0E are assembled.
ResetVals == {192, 224, 0}

\* What a step that restores or clears state found.
Before == [snd |-> snd, cpu |-> cpu, rom |-> rom, disp |-> disp, frm |-> frm]

\* The control register as a control command left it; the CPU in its main
\* program with video RAM filled, bank 0 selected, R0 and R1 loaded.
InitReset ==
    /\ \E c \in {0, 6, 15} : snd = cop411_command(cop411_init, c)
    /\ adev = TRUE
    /\ lock = "free" /\ ppc = "idle" /\ pval = 0 /\ cpc = "idle"
    /\ rom \in {<<147>>, <<5, 147>>} /\ file = NoFile /\ ini = NoIni
    /\ disp = DispInit
    /\ frm = FrmInit
    /\ hist = HistInit
    /\ cpu = [I8048Init EXCEPT !.A = 171, !.P1 = 248, !.P2 = 128,
                               !.PC = MainBase, !.t1 = TRUE,
                               !.iram[0] = 255, !.iram[1] = 85,
                               !.xram = VideoFilled]

\* The R key, or a ROM dropped on the window: av_reset.
Reset ==
    /\ hist.nrst < MaxResets
    /\ LET r == av_reset(cpu, rom, disp, snd, frm) IN
         /\ cpu' = r.cpu /\ rom' = r.rom /\ disp' = r.disp
         /\ snd' = r.snd /\ frm' = r.frm
    /\ hist' = [hist EXCEPT !.op = "reset", !.nrst = @ + 1,
                            !.before = Before]
    /\ UNCHANGED <<adev, lock, ppc, pval, cpc, file, ini>>

NextReset ==
    \/ \E val \in ResetVals : hist.nwr < MaxResetWrites /\ PortWrite(val)
    \/ hist.ncb < 1 /\ AudioCb
    \/ \E op \in {144, 145} : hist.nexec < MaxResetExec /\ MemMovx(op)
    \/ Reset

SpecReset == InitReset /\ [][NextReset]_vars

\* C25: a soft reset leaves ctrl_loop, ctrl_vol and ctrl_fast as it found
\* them, and after it IRAM and XRAM bank 0 are zero, XRAM banks 1..3 are
\* 0xFF, A = 0, PC = 0, P1 = 0xFB, P2 = 0xFF, T0 = 1, the ROM image is
\* what it was, the sound is inactive and the nibble protocol idle.
C25_SoftReset ==
    hist.op = "reset" =>
        /\ snd.ctrl_loop = hist.before.snd.ctrl_loop
        /\ snd.ctrl_vol = hist.before.snd.ctrl_vol
        /\ snd.ctrl_fast = hist.before.snd.ctrl_fast
        /\ \A a \in 0..(IRAM_SZ - 1) : cpu.iram[a] = 0
        /\ \A a \in 0..255 : cpu.xram[a] = 0
        /\ \A a \in 256..(XRAM_SZ - 1) : cpu.xram[a] = 255
        /\ cpu.A = 0 /\ cpu.PC = 0
        /\ cpu.P1 = 251 /\ cpu.P2 = 255 /\ cpu.t0
        /\ rom = hist.before.rom
        /\ ~snd.active /\ snd.proto_state = 0

\* A reset of a machine with a non-zero control register, a sound playing,
\* a handshake under way, and A, PC, IRAM and XRAM changed by its program.
C25_Witness ==
    /\ hist.op = "reset"
    /\ hist.before.snd.ctrl_loop = 1 /\ hist.before.snd.ctrl_vol = 3
    /\ hist.before.snd.ctrl_fast = 1
    /\ hist.before.snd.active /\ hist.before.snd.proto_state /= 0
    /\ hist.before.cpu.A /= 0 /\ hist.before.cpu.PC /= 0
    /\ hist.before.cpu.iram[0] /= 0
    /\ \E a \in 0..255 : hist.before.cpu.xram[a] /= 0
    /\ \E a \in 256..(XRAM_SZ - 1) : hist.before.cpu.xram[a] /= 255
    /\ \E i \in DOMAIN rom : rom[i] /= 0

(***************************************************************************)
(* Savestates: save_state and load_state.                                  *)
(*                                                                         *)
(* The file is held as the sequence of the fields save_state writes, in    *)
(* file order; a file cut short is a prefix of it.  phase_acc and          *)
(* phase_inc, which load_state reads back unchanged, are left out with     *)
(* the registers themselves.  The two float values that are not finite     *)
(* numbers are held as the two integers of NonFinite.                      *)
(*                                                                         *)
(*   1 magic   2 ver     3 A       4 PC      5 PSW     6 SP     7 flags    *)
(*   8 flags2  9 timer  10 P1     11 P2     12 BUS    13 iram  14 xram     *)
(*  15 tpre   16 cycles 17 ctrl_loop  18 ctrl_vol  19 ctrl_fast            *)
(*  20 proto_state  21 proto_hi  22 lfsr  23 active  24 is_noise           *)
(*  25 command  26 cur_freq  27 cur_vol  28 cur_step  29 step_count        *)
(*  30 step_samples_left  31 segment  32 seg_samples_left                  *)
(*  33 seg_samples_total  34 seg1_vol  35 seg2_vol  36 steps               *)
(***************************************************************************)
\* +Inf and NaN as a float field of a file can hold them.
NonFinite == {2000000000, 2000000001}

\* save_state: the fields in the order of the fwrite calls.
save_state(c, s) ==
    <<SAVE_MAGIC, SAVE_VER,
      c.A, c.PC, c.PSW, c.SP, PackFlags(c), PackFlags2(c),
      c.timer, c.P1, c.P2, c.BUS, c.iram, c.xram, c.tpre, c.cycles,
      s.ctrl_loop, s.ctrl_vol, s.ctrl_fast, s.proto_state, s.proto_hi,
      s.lfsr, B2N(s.active), B2N(s.is_noise), s.command,
      s.cur_freq, s.cur_vol,
      s.cur_step, s.step_count, s.step_samples_left, s.segment,
      s.seg_samples_left, s.seg_samples_total,
      s.seg1_vol, s.seg2_vol, s.steps>>

\* The fread calls of load_state: a field is read while the file lasts;
\* whatever a failed read leaves in the remaining fields is overwritten
\* from the backups before load_state returns.
LoadRead(c, s, blob) ==
    LET G(k, cur) == IF k <= Len(blob) THEN blob[k] ELSE cur IN
    [cpu |-> [c EXCEPT !.A = G(3, @), !.PC = G(4, @), !.PSW = G(5, @),
                       !.SP = G(6, @), !.timer = G(9, @), !.P1 = G(10, @),
                       !.P2 = G(11, @), !.BUS = G(12, @), !.iram = G(13, @),
                       !.xram = G(14, @), !.tpre = G(15, @),
                       !.cycles = G(16, @)],
     flags  |-> G(7, 0),
     flags2 |-> G(8, 0),
     snd |-> [s EXCEPT !.ctrl_loop = G(17, @), !.ctrl_vol = G(18, @),
                       !.ctrl_fast = G(19, @), !.proto_state = G(20, @),
                       !.proto_hi = G(21, @), !.lfsr = G(22, @),
                       !.active = G(23, B2N(@)) /= 0,
                       !.is_noise = G(24, B2N(@)) /= 0,
                       !.command = G(25, @), !.cur_freq = G(26, @),
                       !.cur_vol = G(27, @), !.cur_step = G(28, @),
                       !.step_count = G(29, @),
                       !.step_samples_left = G(30, @),
                       !.segment = G(31, @), !.seg_samples_left = G(32, @),
                       !.seg_samples_total = G(33, @),
                       !.seg1_vol = G(34, @), !.seg2_vol = G(35, @),
                       !.steps = G(36, @)]]

\* The sanitising of one loaded step.
SanitizeStep(st) ==
    LET f  == IF st.freq \in NonFinite \/ st.freq < 0 THEN 0 ELSE st.freq
        v1 == IF st.volume \in NonFinite THEN 0 ELSE st.volume
        v2 == IF v1 < 0 THEN 0 ELSE v1
        v3 == IF v2 > 2000 THEN 1000 ELSE v2
    IN [st EXCEPT !.freq = f, !.volume = v3,
                  !.dur_ms = IF @ < 0 THEN 1 ELSE @]

\* A plausible slip: a step_count outside 0..16 is kept.
SanitizeSnd_nocount(s) ==
    LET cnt == s.step_count
        vol == IF s.cur_vol \in NonFinite \/ s.cur_vol < 0 THEN 0
               ELSE s.cur_vol
    IN cop411_update_ctrl_vol(
         [s EXCEPT
            !.lfsr = IF @ = 0 THEN 32767 ELSE @,
            !.ctrl_loop = @ % 2, !.ctrl_vol = @ % 4, !.ctrl_fast = @ % 2,
            !.proto_state = IF @ > 3 THEN 0 ELSE @,
            !.proto_hi = @ % 16,
            !.step_count = cnt,
            !.cur_step = IF @ < 0 \/ @ >= cnt THEN 0 ELSE @,
            !.segment = IF @ < 0 \/ @ > 1 THEN 0 ELSE @,
            !.step_samples_left = IF @ < 0 THEN 0 ELSE @,
            !.seg_samples_left = IF @ < 0 THEN 0 ELSE @,
            !.seg_samples_total = IF @ < 0 THEN 0 ELSE @,
            !.cur_freq = IF @ \in NonFinite \/ @ < 0 THEN 0 ELSE @,
            !.cur_vol = IF vol > 2000 THEN 1000 ELSE vol,
            !.seg1_vol = IF @ \in NonFinite THEN 1000 ELSE @,
            !.seg2_vol = IF @ \in NonFinite THEN 500 ELSE @,
            !.steps = [i \in 0..(MAX_SND_STEPS - 1) |->
                         IF i < cnt THEN SanitizeStep(@[i]) ELSE @[i]]])

\* load_state from "Sanitize LFSR" to cop411_update_ctrl_vol.
SanitizeSnd(s) ==
    LET cnt == IF s.step_count < 0 \/ s.step_count > MAX_SND_STEPS
               THEN 0 ELSE s.step_count
        vol == IF s.cur_vol \in NonFinite \/ s.cur_vol < 0 THEN 0
               ELSE s.cur_vol
    IN cop411_update_ctrl_vol(
         [s EXCEPT
            !.lfsr = IF @ = 0 THEN 32767 ELSE @,
            !.ctrl_loop = @ % 2, !.ctrl_vol = @ % 4, !.ctrl_fast = @ % 2,
            !.proto_state = IF @ > 3 THEN 0 ELSE @,
            !.proto_hi = @ % 16,
            !.step_count = cnt,
            !.cur_step = IF @ < 0 \/ @ >= cnt THEN 0 ELSE @,
            !.segment = IF @ < 0 \/ @ > 1 THEN 0 ELSE @,
            !.step_samples_left = IF @ < 0 THEN 0 ELSE @,
            !.seg_samples_left = IF @ < 0 THEN 0 ELSE @,
            !.seg_samples_total = IF @ < 0 THEN 0 ELSE @,
            !.cur_freq = IF @ \in NonFinite \/ @ < 0 THEN 0 ELSE @,
            !.cur_vol = IF vol > 2000 THEN 1000 ELSE vol,
            !.seg1_vol = IF @ \in NonFinite THEN 1000 ELSE @,
            !.seg2_vol = IF @ \in NonFinite THEN 500 ELSE @,
            !.steps = [i \in 0..(MAX_SND_STEPS - 1) |->
                         IF i < cnt THEN SanitizeStep(@[i]) ELSE @[i]]])

\* A plausible slip: a short read returns without restoring the backups.
load_state_norestore(c, s, blob) ==
    LET rd == LoadRead(c, s, blob) IN
    IF Len(blob) < 1 \/ blob[1] /= SAVE_MAGIC
       \/ Len(blob) < 2 \/ blob[2] /= SAVE_VER
    THEN [ok |-> FALSE, cpu |-> c, snd |-> s]
    ELSE IF Len(blob) < Len(save_state(c, s))
    THEN [ok |-> FALSE, cpu |-> rd.cpu, snd |-> rd.snd]
    ELSE [ok  |-> TRUE,
          cpu |-> [UnpackFlags(rd.cpu, rd.flags, rd.flags2) EXCEPT
                      !.PC = @ % 4096, !.SP = @ % 8, !.t0 = TRUE],
          snd |-> SanitizeSnd(rd.snd)]

\* load_state: a missing file, a bad magic or a version mismatch returns
\* false before anything is touched; a short read restores cpu_bak and
\* snd_bak and returns false; otherwise the flags are unpacked, PC and SP
\* masked, t0 set, the sound fields sanitised, and true is returned.  The
\* ROM images are copied back from cpu_bak.
load_state(c, s, blob) ==
    IF Len(blob) < 1 \/ blob[1] /= SAVE_MAGIC
    THEN [ok |-> FALSE, cpu |-> c, snd |-> s]
    ELSE IF Len(blob) < 2 \/ blob[2] /= SAVE_VER
    THEN [ok |-> FALSE, cpu |-> c, snd |-> s]
    ELSE LET cpu_bak == c
             snd_bak == s
             rd      == LoadRead(c, s, blob)
             ok      == Len(blob) >= Len(save_state(c, s))
         IN IF ~ok
            THEN [ok |-> FALSE, cpu |-> cpu_bak, snd |-> snd_bak]
            ELSE [ok  |-> TRUE,
                  cpu |-> [UnpackFlags(rd.cpu, rd.flags, rd.flags2) EXCEPT
                              !.PC = @ % 4096, !.SP = @ % 8, !.t0 = TRUE],
                  snd |-> SanitizeSnd(rd.snd)]

(***************************************************************************)
(* SpecSave: F5 (save_state) and F7 (load_state) around a machine that     *)
(* runs code, receives one sound command and generates samples, with a     *)
(* file that may be cut short or edited between the two.                   *)
(***************************************************************************)
MaxSaveCb == 8

\* Command bytes: effect 10 (one 50 ms step), effect 8 (six 12 ms steps),
\* tone 0.
SaveCmds == {160, 128, 224}

\* Single fields of a file replaced: <<field, value>>.
FieldEdits ==
    {<<1, 0>>, <<2, 17>>, <<4, 8191>>, <<6, 9>>, <<17, 3>>, <<18, 7>>,
     <<20, 7>>, <<21, 31>>, <<22, 0>>, <<22, 1>>, <<26, 2000000001>>,
     <<27, 3000>>, <<27, 2000000000>>, <<28, -1>>, <<28, 16>>,
     <<29, -1>>, <<29, 17>>, <<29, 16>>, <<30, -5>>, <<31, 2>>,
     <<34, 2000000001>>}

\* The files a complete file can be turned into: cut short after n
\* fields, one field replaced, or the first step replaced.
Tampered(blob) ==
    {SubSeq(blob, 1, n) : n \in {0, 1, 2, 13, 27, 35}}
    \cup {[blob EXCEPT ![e[1]] = e[2]] : e \in FieldEdits}
    \cup {[blob EXCEPT ![36] =
             [@ EXCEPT ![0] = SndStep(2000000001, FALSE, -1, 3000)]]}

\* Power-up, or power-up and one control command; the CPU in its main
\* program with video RAM filled.
InitSave ==
    /\ snd \in {cop411_init} \cup
               {cop411_command(cop411_init, c) : c \in {7, 8}}
    /\ adev = TRUE
    /\ lock = "free" /\ ppc = "idle" /\ pval = 0 /\ cpc = "idle"
    /\ rom = <<147>> /\ file = NoFile /\ ini = NoIni
    /\ disp = DispInit
    /\ frm = FrmInit
    /\ hist = HistInit
    /\ cpu = [I8048Init EXCEPT !.A = 171, !.P1 = 248, !.P2 = 128,
                               !.PC = MainBase, !.t1 = TRUE,
                               !.C = TRUE, !.timer = 85, !.irq_en = TRUE,
                               !.iram[0] = 255, !.xram = VideoFilled]

\* F5: save_state under the audio lock.
Save ==
    /\ file = NoFile
    /\ file' = save_state(cpu, snd)
    /\ hist' = [hist EXCEPT !.op = "save"]
    /\ UNCHANGED <<snd, adev, lock, ppc, pval, cpc, cpu, rom, ini, disp, frm>>

\* A complete file is cut short or edited outside the emulator.
Tamper ==
    /\ Len(file) = Len(save_state(cpu, snd))
    /\ hist.op \notin {"tamper", "load"}
    /\ file' \in Tampered(file)
    /\ hist' = [hist EXCEPT !.op = "tamper"]
    /\ UNCHANGED <<snd, adev, lock, ppc, pval, cpc, cpu, rom, ini, disp, frm>>

\* F7: load_state under the audio lock.
Load ==
    /\ hist.op /= "load"
    /\ LET r == load_state(cpu, snd, file) IN
         /\ cpu' = r.cpu
         /\ snd' = r.snd
         /\ hist' = [hist EXCEPT !.op = "load", !.ok = r.ok,
                                 !.before = Before]
    /\ UNCHANGED <<adev, lock, ppc, pval, cpc, rom, file, ini, disp, frm>>

NextSave ==
    \/ /\ hist.op \notin {"tamper", "load"}
       /\ \/ \E b \in SaveCmds : BiosWrite(b)
          \/ hist.ncb < MaxSaveCb /\ AudioCb
          \/ hist.nexec < 1 /\ MemMov(18)
          \/ Save
    \/ Tamper
    \/ Load

SpecSave == InitSave /\ [][NextSave]_vars

\* The load just made read the file save_state writes for the state it
\* found: save followed by load.
SavedThenLoaded ==
    /\ hist.op = "load"
    /\ file = save_state(hist.before.cpu, hist.before.snd)

\* C26: save followed by load succeeds and yields a state whose
\* serialisation is the file that was loaded, field for field.
C26_RoundTrip ==
    SavedThenLoaded => hist.ok /\ save_state(cpu, snd) = file

\* The file fails a check of its form: missing or empty, bad magic,
\* version mismatch, or cut short.
Malformed ==
    \/ Len(file) < 1 \/ file[1] /= SAVE_MAGIC
    \/ Len(file) < 2 \/ file[2] /= SAVE_VER
    \/ Len(file) < Len(save_state(cpu, snd))

\* A complete file holds a field outside the range the machine keeps it
\* in: PC above 0xFFF, SP above 7, proto_state above 3, a zero LFSR,
\* step_count outside 0..16, segment outside 0..1.
FieldOutOfRange ==
    /\ ~Malformed
    /\ \/ file[4] > 4095 \/ file[6] > 7 \/ file[20] > 3 \/ file[22] = 0
       \/ file[29] \notin 0..MAX_SND_STEPS \/ file[31] \notin {0, 1}

\* The load just made reported failure and left CPU and sound as found.
Rejected ==
    ~hist.ok /\ cpu = hist.before.cpu /\ snd = hist.before.snd

\* C27 as stated: a load of a file that is malformed or holds a field out
\* of range reports failure and leaves CPU and sound state as they were.
C27_AllOrNothing ==
    (hist.op = "load" /\ (Malformed \/ FieldOutOfRange)) => Rejected

\* C27 as the code has it: a load of a malformed file (missing, bad magic,
\* version mismatch, cut short) reports failure and leaves CPU and sound
\* state as they were; a complete file with the right magic and version
\* loads with success, fields out of range or not.
C27_RejectsMalformed ==
    hist.op = "load" => IF Malformed THEN Rejected ELSE hist.ok

\* A file cut short after the sound fields had begun to be read, loaded
\* into a machine whose sound state had moved on since the save: the
\* backups are what restores it.
C27_Witness ==
    /\ hist.op = "load" /\ ~hist.ok
    /\ Len(file) > 16 /\ Len(file) < Len(save_state(cpu, snd))
    /\ LoadRead(hist.before.cpu, hist.before.snd, file).snd /= hist.before.snd
    /\ snd = hist.before.snd

\* What every successful load leaves, the cursor aside: step_count in
\* 0..16, PC <= 0xFFF, SP <= 7, proto_state <= 3, segment 0 or 1, LFSR not
\* zero, and a cursor with which the next sample stays inside steps[0..15].
LoadedRanges ==
    /\ snd.step_count \in 0..MAX_SND_STEPS
    /\ cpu.PC \in 0..4095 /\ cpu.SP \in 0..7
    /\ snd.proto_state \in 0..3
    /\ snd.segment \in {0, 1}
    /\ snd.lfsr /= 0
    /\ snd.cur_step \in 0..(MAX_SND_STEPS - 1)
    /\ cop411_sample(snd).active =>
           cop411_sample(snd).cur_step \in 0..(MAX_SND_STEPS - 1)

\* C28 as stated: after every successful load step_count is in [0,16] and
\* cur_step in [0, step_count), PC <= 0xFFF, SP <= 7, proto_state <= 3,
\* segment is 0 or 1 and the LFSR is not zero.
C28_LoadedCursor ==
    (hist.op = "load" /\ hist.ok) =>
        LoadedRanges /\ snd.cur_step \in 0..(snd.step_count - 1)

\* C28 as the code has it: the same, with cur_step in [0, step_count) when
\* step_count is positive and cur_step = 0 when step_count is 0.
C28_LoadedCursorOrZero ==
    (hist.op = "load" /\ hist.ok) =>
        /\ LoadedRanges
        /\ IF snd.step_count > 0
           THEN snd.cur_step \in 0..(snd.step_count - 1)
           ELSE snd.cur_step = 0

\* A file with step_count = 17, saved while an effect played, is loaded
\* with success: step_count and the cursor come out as 0, the sound still
\* active.
C28_Witness ==
    /\ hist.op = "load" /\ hist.ok
    /\ ~Malformed /\ file[29] = 17 /\ file[28] > 0
    /\ snd.step_count = 0 /\ snd.cur_step = 0 /\ snd.active

(***************************************************************************)
(* SpecLfsr: the noise shift register through samples, soft reset,         *)
(* savestates and rewind.                                                  *)
(***************************************************************************)
MaxClocks == 2
MaxRewind == 1

\* Power-up, or power-up and command 0x10 (effect 1: noise, looping).
InitLfsr ==
    /\ snd \in {cop411_init, cop411_command(cop411_init, 16)}
    /\ adev = TRUE
    /\ lock = "free" /\ ppc = "idle" /\ pval = 0 /\ cpc = "idle"
    /\ rom = <<147>> /\ file = NoFile /\ ini = NoIni
    /\ disp = DispInit
    /\ frm = FrmInit
    /\ hist = HistInit
    /\ cpu = [I8048Init EXCEPT !.PC = MainBase, !.t1 = TRUE]

\* cop411_sample on a noise step, at a sample where phase_acc wraps:
\* lfsr_clock, then the sequencer.
NoiseSample ==
    /\ snd.active /\ snd.is_noise
    /\ hist.nsamp < MaxClocks
    /\ snd' = cop411_sample(lfsr_clock(snd))
    /\ hist' = [hist EXCEPT !.op = "clock", !.nsamp = @ + 1,
                            !.before = Before]
    /\ UNCHANGED <<adev, lock, ppc, pval, cpc, cpu, rom, file, ini, disp, frm>>

\* F8: up to four rewind_pop calls under the audio lock.
Rewind ==
    LET r1 == rewind_pop(frm, cpu, disp, snd)
        r2 == rewind_pop(r1.frm, r1.cpu, r1.disp, r1.snd)
        r3 == rewind_pop(r2.frm, r2.cpu, r2.disp, r2.snd)
        r4 == rewind_pop(r3.frm, r3.cpu, r3.disp, r3.snd)
    IN /\ hist.op /= "rewind"
       /\ frm' = r4.frm /\ cpu' = r4.cpu /\ disp' = r4.disp /\ snd' = r4.snd
       /\ hist' = [hist EXCEPT !.op = "rewind", !.ok = r1.ok,
                               !.before = Before]
       /\ UNCHANGED <<adev, lock, ppc, pval, cpc, rom, file, ini>>

NextLfsr ==
    \/ /\ hist.op \notin {"save", "tamper"}
       /\ \/ NoiseSample
          \/ Reset
          \/ Save
          \/ frm.rewind_count < MaxRewind /\ PhosBegin
          \/ PhosUpdate
          \/ Rewind
    \/ hist.op = "save" /\ Tamper /\ Len(file') = Len(file)
                        /\ file'[22] \in {0, 1}
    \/ hist.op = "tamper" /\ Load

SpecLfsr == InitLfsr /\ [][NextLfsr]_vars

\* C29: the LFSR is never zero: it is 0x7FFF after initialisation and
\* after a soft reset, a clock shifts it right with bit 0 XOR bit 1 into
\* bit 14 and leaves it non-zero, a load turns a zero in the file into
\* 0x7FFF, and a rewind pop restores a value that was pushed.
C29_LfsrNonZero ==
    /\ snd.lfsr /= 0
    /\ hist.op \in {"init", "reset"} => snd.lfsr = 32767
    /\ (hist.op = "load" /\ hist.ok) =>
           snd.lfsr = IF file[22] = 0 THEN 32767 ELSE file[22]
    /\ hist.op = "clock" =>
           /\ \A i \in 0..13 :
                 BitOf(snd.lfsr, i) = BitOf(hist.before.snd.lfsr, i + 1)
           /\ hist.before.snd.lfsr < 32768 =>
                 BitOf(snd.lfsr, 14) =
                    (BitOf(hist.before.snd.lfsr, 0)
                     + BitOf(hist.before.snd.lfsr, 1)) % 2

\* A clock of the register a load had set to 1: the feedback bit keeps it
\* from becoming zero.
C29_Witness ==
    /\ hist.op = "clock"
    /\ hist.before.snd.lfsr = 1
    /\ snd.lfsr = 16384

(***************************************************************************)
(* SpecPc: i8048_exec over the whole opcode space.  The opcode, the byte   *)
(* after it, the ROM byte a table read returns and the controller mask are *)
(* inputs: the ROM is any ROM.                                             *)
(***************************************************************************)
\* Bitwise operations on bytes; tt[x + 1][y + 1] is the result bit.
RECURSIVE BitMix(_, _, _, _)
BitMix(a, b, tt, n) ==
    IF n = 0 THEN 0
    ELSE tt[(a % 2) + 1][(b % 2) + 1] + 2 * BitMix(a \div 2, b \div 2, tt, n - 1)

And8(a, b) == BitMix(a, b, <<<<0, 0>>, <<0, 1>>>>, 8)
Or8(a, b)  == BitMix(a, b, <<<<0, 1>>, <<1, 1>>>>, 8)
Xor8(a, b) == BitMix(a, b, <<<<0, 1>>, <<1, 0>>>>, 8)

\* t16 = A + t (+ C): AC from the low nibbles, C from bit 8, A the low byte.
AddA(c, t, cin) ==
    [c EXCEPT !.AC = (c.A % 16) + (t % 16) + cin > 15,
              !.C  = c.A + t + cin > 255,
              !.A  = (c.A + t + cin) % 256]

\* Mutant: the auxiliary carry is not an adjust condition.
DaA_noac(c) ==
    LET lo == (c.A % 16) > 9
        a1 == IF lo THEN (c.A + 6) % 256 ELSE c.A
        c1 == IF lo /\ a1 < c.A THEN TRUE ELSE c.C
        hi == (a1 \div 16) > 9 \/ c1
    IN [c EXCEPT !.A = IF hi THEN (a1 + 96) % 256 ELSE a1,
                 !.C = IF hi THEN TRUE ELSE c1]

\* case 0x57, DA A.
DaA(c) ==
    LET lo == (c.A % 16) > 9 \/ c.AC
        a1 == IF lo THEN (c.A + 6) % 256 ELSE c.A
        c1 == IF lo /\ a1 < c.A THEN TRUE ELSE c.C
        hi == (a1 \div 16) > 9 \/ c1
    IN [c EXCEPT !.A = IF hi THEN (a1 + 96) % 256 ELSE a1,
                 !.C = IF hi THEN TRUE ELSE c1]

\* case 0xD7, MOV PSW,A.
MovPswA_nomask(c) ==
    [c EXCEPT !.PSW = c.A,
              !.C  = BitOf(c.A, 7) = 1, !.AC = BitOf(c.A, 6) = 1,
              !.F0 = BitOf(c.A, 5) = 1, !.BS = BitOf(c.A, 4) = 1,
              !.SP = c.A % 16]

MovPswA(c) ==
    [c EXCEPT !.PSW = c.A,
              !.C  = BitOf(c.A, 7) = 1, !.AC = BitOf(c.A, 6) = 1,
              !.F0 = BitOf(c.A, 5) = 1, !.BS = BitOf(c.A, 4) = 1,
              !.SP = c.A % 8]

\* Mutant: the destination without the bank bit.
JmpTarget_nomb(c, op, arg) == (op \div 32) * 256 + arg

\* The destination of JMP and CALL: ((op & 0xE0) << 3) | t, and 0x800 when
\* MB is set.
JmpTarget(c, op, arg) ==
    (op \div 32) * 256 + arg + (IF c.MB THEN 2048 ELSE 0)

\* PC & 0xF00.
Page(c) == ((c.PC \div 256) % 16) * 256

\* Mutant: the register is tested before it is decremented.
Djnz_pre(f, r, arg) ==
    LET v == (f.iram[r] + 255) % 256 IN
    [f EXCEPT !.iram[r] = v,
              !.PC = IF f.iram[r] /= 0 THEN Page(f) + arg ELSE @]

\* case 0xE8..0xEF, DJNZ Rr,addr, after the operand fetch: r is the index
\* of Rr in internal RAM.
Djnz(f, r, arg) ==
    LET v == (f.iram[r] + 255) % 256 IN
    [f EXCEPT !.iram[r] = v,
              !.PC = IF v /= 0 THEN Page(f) + arg ELSE @]

\* The conditional jumps with their conditions.
IsCondJump(op) ==
    op \in {246, 230, 198, 150, 38, 54, 70, 86, 182, 118, 22, 134}
    \/ op % 32 = 18

JumpCond(c, op) ==
    CASE op = 246 -> c.C
      [] op = 230 -> ~c.C
      [] op = 198 -> c.A = 0
      [] op = 150 -> c.A /= 0
      [] op = 38  -> ~c.t0
      [] op = 54  -> c.t0
      [] op = 70  -> ~c.t1
      [] op = 86  -> c.t1
      [] op = 182 -> c.F0
      [] op = 118 -> c.F1
      [] op = 22  -> c.timer_ovf
      [] op = 134 -> FALSE
      [] OTHER    -> BitOf(c.A, op \div 32) = 1

\* The instruction fetches an operand byte with a second ft.
TwoByteAny(op) ==
    \/ op \in {35, 3, 19, 83, 67, 211, 176, 177}
    \/ op \in {136, 152, 153, 154, 137, 138}
    \/ op \div 8 \in {23, 29}
    \/ op % 32 \in {4, 20}
    \/ IsCondJump(op)

\* cy of the instruction.
OpCyclesAny(op) ==
    IF \/ TwoByteAny(op)
       \/ op \in {179, 131, 147, 8, 2, 9, 10, 57, 58, 128, 129, 144, 145, 163, 227}
       \/ op \div 4 \in {3, 15, 35, 39}
    THEN 2 ELSE 1

\* The switch of i8048_exec for every opcode, the CPU part: c is the CPU
\* after the opcode fetch, arg the byte at PC, romb the byte rom_rd returns
\* to JMPP and MOVP, ext the controller mask av_port_read puts on P1.
ExecAny(c, op, arg, romb, ext) ==
    LET r  == R(c, op % 8)
        rv == c.iram[r]
        ia == c.iram[R(c, op % 2)] % IRAM_SZ
        iv == c.iram[ia]
        f  == ft(c)
    IN CASE op = 0 -> c
         \* MOV
         [] op \div 8 = 31 -> [c EXCEPT !.A = rv]
         [] op \div 8 = 21 -> [c EXCEPT !.iram[r] = c.A]
         [] op = 35 -> [f EXCEPT !.A = arg]
         [] op \div 8 = 23 -> [f EXCEPT !.iram[r] = arg]
         [] op \in {240, 241} -> [c EXCEPT !.A = iv]
         [] op \in {160, 161} -> [c EXCEPT !.iram[ia] = c.A]
         [] op \in {176, 177} -> [f EXCEPT !.iram[ia] = arg]
         \* XCH, XCHD
         [] op \div 8 = 5 -> [c EXCEPT !.A = rv, !.iram[r] = c.A]
         [] op \in {32, 33} -> [c EXCEPT !.A = iv, !.iram[ia] = c.A]
         [] op \in {48, 49} ->
                [c EXCEPT !.A = (c.A \div 16) * 16 + (iv % 16),
                          !.iram[ia] = (iv \div 16) * 16 + (c.A % 16)]
         \* ADD, ADDC
         [] op \div 8 = 13 -> AddA(c, rv, 0)
         [] op = 3 -> AddA(f, arg, 0)
         [] op \in {96, 97} -> AddA(c, iv, 0)
         [] op \div 8 = 15 -> AddA(c, rv, B2N(c.C))
         [] op = 19 -> AddA(f, arg, B2N(c.C))
         [] op \in {112, 113} -> AddA(c, iv, B2N(c.C))
         \* ANL, ORL, XRL
         [] op \div 8 = 11 -> [c EXCEPT !.A = And8(c.A, rv)]
         [] op = 83 -> [f EXCEPT !.A = And8(c.A, arg)]
         [] op \in {80, 81} -> [c EXCEPT !.A = And8(c.A, iv)]
         [] op \div 8 = 9 -> [c EXCEPT !.A = Or8(c.A, rv)]
         [] op = 67 -> [f EXCEPT !.A = Or8(c.A, arg)]
         [] op \in {64, 65} -> [c EXCEPT !.A = Or8(c.A, iv)]
         [] op \div 8 = 27 -> [c EXCEPT !.A = Xor8(c.A, rv)]
         [] op = 211 -> [f EXCEPT !.A = Xor8(c.A, arg)]
         [] op \in {208, 209} -> [c EXCEPT !.A = Xor8(c.A, iv)]
         \* INC, DEC, CLR, CPL
         [] op = 23 -> [c EXCEPT !.A = (c.A + 1) % 256]
         [] op \div 8 = 3 -> [c EXCEPT !.iram[r] = (rv + 1) % 256]
         [] op \in {16, 17} -> [c EXCEPT !.iram[ia] = (iv + 1) % 256]
         [] op = 7 -> [c EXCEPT !.A = (c.A + 255) % 256]
         [] op \div 8 = 25 -> [c EXCEPT !.iram[r] = (rv + 255) % 256]
         [] op = 39 -> [c EXCEPT !.A = 0]
         [] op = 55 -> [c EXCEPT !.A = 255 - c.A]
         \* DA, SWAP, rotates
         [] op = 87 -> DaA(c)
         [] op = 71 -> [c EXCEPT !.A = (c.A % 16) * 16 + (c.A \div 16)]
         [] op = 231 -> [c EXCEPT !.A = ((c.A * 2) % 256) + (c.A \div 128)]
         [] op = 247 -> [c EXCEPT !.C = c.A \div 128 = 1,
                                  !.A = ((c.A * 2) % 256) + B2N(c.C)]
         [] op = 119 -> [c EXCEPT !.A = (c.A \div 2) + (c.A % 2) * 128]
         [] op = 103 -> [c EXCEPT !.C = c.A % 2 = 1,
                                  !.A = (c.A \div 2) + B2N(c.C) * 128]
         \* flags
         [] op = 151 -> [c EXCEPT !.C = FALSE]
         [] op = 167 -> [c EXCEPT !.C = ~c.C]
         [] op = 133 -> [c EXCEPT !.F0 = FALSE]
         [] op = 149 -> [c EXCEPT !.F0 = ~c.F0]
         [] op = 165 -> [c EXCEPT !.F1 = FALSE]
         [] op = 181 -> [c EXCEPT !.F1 = ~c.F1]
         [] op = 197 -> [c EXCEPT !.BS = FALSE]
         [] op = 213 -> [c EXCEPT !.BS = TRUE]
         [] op = 229 -> [c EXCEPT !.MB = FALSE]
         [] op = 245 -> [c EXCEPT !.MB = TRUE]
         \* JMP, JMPP, DJNZ, conditional jumps
         [] op % 32 = 4 -> [f EXCEPT !.PC = JmpTarget(c, op, arg)]
         [] op = 179 -> [c EXCEPT !.PC = Page(c) + romb]
         [] op \div 8 = 29 -> Djnz(f, r, arg)
         [] IsCondJump(op) ->
                IF JumpCond(c, op)
                THEN [f EXCEPT !.PC = Page(f) + arg,
                               !.timer_ovf = IF op = 22 THEN FALSE ELSE @]
                ELSE f
         \* CALL, RET, RETR
         [] op % 32 = 20 -> [push8(bpsw(f)) EXCEPT !.PC = JmpTarget(c, op, arg)]
         [] op = 131 -> pop_pc(c)
         [] op = 147 -> [pop_pc_psw(c) EXCEPT !.irq_en = TRUE, !.in_irq = FALSE]
         \* interrupts and timer
         [] op = 5   -> [c EXCEPT !.irq_en = TRUE, !.ei_delay = 1]
         [] op = 21  -> [c EXCEPT !.irq_en = FALSE]
         [] op = 37  -> [c EXCEPT !.tcnti_en = TRUE]
         [] op = 53  -> [c EXCEPT !.tcnti_en = FALSE]
         [] op = 85  -> [c EXCEPT !.timer_en = TRUE, !.counter_en = FALSE, !.tpre = 0]
         [] op = 69  -> [c EXCEPT !.counter_en = TRUE, !.timer_en = FALSE, !.tpre = 0]
         [] op = 101 -> [c EXCEPT !.timer_en = FALSE, !.counter_en = FALSE, !.tpre = 0]
         [] op = 66  -> [c EXCEPT !.A = c.timer]
         [] op = 98  -> [c EXCEPT !.timer = c.A, !.tpre = 0]
         \* PSW
         [] op = 199 -> [bpsw(c) EXCEPT !.A = bpsw(c).PSW]
         [] op = 215 -> MovPswA(c)
         \* ports
         [] op = 8   -> [c EXCEPT !.A = 255]
         [] op = 2   -> [c EXCEPT !.BUS = c.A]
         [] op = 136 -> [f EXCEPT !.BUS = Or8(c.BUS, arg)]
         [] op = 152 -> [f EXCEPT !.BUS = And8(c.BUS, arg)]
         [] op = 9   -> [c EXCEPT !.A = And8(c.P1, ext)]
         [] op = 10  -> [c EXCEPT !.A = c.P2]
         [] op = 57  -> [c EXCEPT !.P1 = c.A]
         [] op = 58  -> [c EXCEPT !.P2 = c.A]
         [] op = 153 -> [f EXCEPT !.P1 = And8(c.P1, arg)]
         [] op = 154 -> [f EXCEPT !.P2 = And8(c.P2, arg)]
         [] op = 137 -> [f EXCEPT !.P1 = Or8(c.P1, arg)]
         [] op = 138 -> [f EXCEPT !.P2 = Or8(c.P2, arg)]
         \* MOVX, MOVP, MOVD
         [] op \in {128, 129, 144, 145} -> ExecMovx(c, DispInit, op).cpu
         [] op \in {163, 227} -> [c EXCEPT !.A = romb]
         [] op \div 4 = 3 -> [c EXCEPT !.A = 15]
         \* MOVD to the expander, ENT0 CLK, unknown opcodes
         [] OTHER -> c

MaxPcExec == 2
PcStarts  == {4094, 4095}
PcArgs    == {255}
PcRomb    == {254}
PcExt     == {207}

\* A CPU that has run code: PC at the top of the address space, either
\* memory bank selected, the stack empty or at its last level, A and
\* internal RAM written (0xFF, R7 of both banks 1), and either the timer
\* with its interrupt enabled one cycle before its wrap or stopped.
InitPc ==
    /\ snd = cop411_init /\ adev = FALSE
    /\ lock = "free" /\ ppc = "idle" /\ pval = 0 /\ cpc = "idle"
    /\ rom = <<>> /\ file = NoFile /\ ini = NoIni
    /\ disp = DispInit
    /\ frm = FrmInit
    /\ hist = HistInit
    /\ \E pc \in PcStarts, mb \in BOOLEAN, sp \in {0, 7}, tm \in BOOLEAN :
         cpu = [I8048Init EXCEPT
                   !.PC = pc, !.MB = mb, !.SP = sp, !.A = 255, !.t1 = TRUE,
                   !.timer = 255, !.tpre = IF tm THEN 31 ELSE 0,
                   !.timer_en = tm, !.tcnti_en = tm, !.irq_en = tm,
                   !.iram = [a \in 0..(IRAM_SZ - 1) |->
                               IF a \in {7, 31} THEN 1 ELSE 255]]

\* i8048_exec with op the byte at PC: the switch, the port and LED
\* register side effects of the instruction, the cycle count, the timer
\* block and the interrupt dispatch.
PcExec(op, arg, romb, ext) ==
    /\ hist.nexec < MaxPcExec
    /\ LET c1 == ft(cpu)
           m  == TimerTick(AddCycles(ExecAny(c1, op, arg, romb, ext),
                                     OpCyclesAny(op)), OpCyclesAny(op))
           w  == av_port_write(snd, m.P2)
       IN /\ cpu' = IrqDispatch(m)
          /\ snd' = IF op \in {58, 154, 138} THEN w.snd ELSE snd
          /\ disp' = IF op \in {58, 154, 138}
                     THEN LedStrobe(disp, frm.prev_p2, m.P2)
                     ELSE IF IsMovxRd(op) THEN ExecMovx(c1, disp, op).disp
                     ELSE disp
          /\ frm' = IF op \in {58, 154, 138}
                    THEN [frm EXCEPT !.prev_p2 = m.P2] ELSE frm
          /\ hist' = [hist EXCEPT !.op = "exec", !.val = op, !.arg = arg,
                                  !.nexec = @ + 1,
                                  !.irq = IrqDispatch(m).SP /= m.SP]
    /\ UNCHANGED <<adev, lock, ppc, pval, cpc, rom, file, ini>>

NextPc ==
    \E op \in 0..255, arg \in PcArgs, romb \in PcRomb, ext \in PcExt :
        PcExec(op, arg, romb, ext)

SpecPc == InitPc /\ [][NextPc]_vars

\* The instruction op, executed by CPU c, loads PC instead of leaving it
\* at the next instruction: JMP, CALL, JMPP, RET, RETR, a DJNZ whose
\* register does not reach zero, a conditional jump whose condition holds.
Transfers(c, op) ==
    \/ op % 32 \in {4, 20}
    \/ op \in {179, 131, 147}
    \/ op \div 8 = 29 /\ c.iram[R(c, op % 8)] /= 1
    \/ IsCondJump(op) /\ JumpCond(c, op)

\* C30: after every executed instruction, whatever the opcode and the ROM
\* bytes (interrupt dispatch, CALL, RET, RETR, JMPP, MOV PSW,A and unknown
\* opcodes included), PC is in 0..0xFFF, SP is in 0..7 and the register
\* bank starts at 0 or 24; an instruction that transfers nowhere and is
\* followed by no dispatch leaves PC at PC + length modulo 4096, whatever
\* MB is.
C30_PcSpBank ==
    /\ [](/\ cpu.PC \in 0..4095
          /\ cpu.SP \in 0..7
          /\ cpu.BS \in BOOLEAN
          /\ R(cpu, 0) \in {0, 24})
    /\ [][ (hist'.op = "exec" /\ ~hist'.irq /\ ~Transfers(cpu, hist'.val)) =>
              cpu'.PC = (cpu.PC + (IF TwoByteAny(hist'.val) THEN 2 ELSE 1)) % 4096
         ]_vars

\* A NOP fetched at 0xFFF with MB set has left PC at 0x000.
C30_Witness ==
    /\ hist.op = "exec" /\ hist.val = 0 /\ hist.nexec = 1 /\ ~hist.irq
    /\ cpu.MB
    /\ cpu.PC = 0

(***************************************************************************)
(* SpecIni: the configuration file.  advision.ini is a sequence of lines;  *)
(* a line is its text up to and including '=' (key) and the characters     *)
(* after it (text).  Of the settings in the file the T1 window and the     *)
(* phosphor decay are part of the state above; the lines of the other      *)
(* settings, the section header and the comment are kept as lines that     *)
(* change none of it.                                                      *)
(***************************************************************************)
DigitChars == <<"0", "1", "2", "3", "4", "5", "6", "7", "8", "9">>

IsDigit(ch) == \E i \in 1..10 : DigitChars[i] = ch

DigitVal(ch) == (CHOOSE i \in 1..10 : DigitChars[i] = ch) - 1

\* printf("%d") of a non-negative number.
RECURSIVE FormatNat(_)
FormatNat(n) ==
    IF n < 10 THEN <<DigitChars[n + 1]>>
    ELSE Append(FormatNat(n \div 10), DigitChars[(n % 10) + 1])

\* printf("%d").
FormatInt(n) == IF n < 0 THEN <<"-">> \o FormatNat(-n) ELSE FormatNat(n)

\* printf("%.2f") of a value held in hundredths.
FormatFix2(h) ==
    FormatNat(h \div 100) \o <<".", DigitChars[((h \div 10) % 10) + 1],
                               DigitChars[(h % 10) + 1]>>

\* The run of digits of txt from position i: its value, its length.
RECURSIVE ScanDigits(_, _, _, _)
ScanDigits(txt, i, v, n) ==
    IF i <= Len(txt) /\ IsDigit(txt[i])
    THEN ScanDigits(txt, i + 1, v * 10 + DigitVal(txt[i]), n + 1)
    ELSE [v |-> v, n |-> n]

\* sscanf("%d"): an optional sign, then digits up to the first character
\* that is none; n is the number of conversions (0 without a digit).
ScanInt(txt) ==
    LET signed == Len(txt) > 0 /\ txt[1] \in {"-", "+"}
        d      == ScanDigits(txt, IF signed THEN 2 ELSE 1, 0, 0)
    IN [n |-> IF d.n > 0 THEN 1 ELSE 0,
        v |-> IF signed /\ txt[1] = "-" THEN -d.v ELSE d.v]

\* sscanf("%f"), in hundredths: an optional sign, digits, an optional point
\* and digits, a digit on one side of the point at least.  The texts read
\* here have no more than two digits after the point.
ScanFix2(txt) ==
    LET signed == Len(txt) > 0 /\ txt[1] \in {"-", "+"}
        i0     == IF signed THEN 2 ELSE 1
        ip     == ScanDigits(txt, i0, 0, 0)
        j      == i0 + ip.n
        point  == j <= Len(txt) /\ txt[j] = "."
        fp     == IF point THEN ScanDigits(txt, j + 1, 0, 0) ELSE [v |-> 0, n |-> 0]
        h      == ip.v * 100 + (IF fp.n = 1 THEN fp.v * 10 ELSE fp.v)
    IN [n |-> IF ip.n + fp.n > 0 THEN 1 ELSE 0,
        v |-> IF signed /\ txt[1] = "-" THEN -h ELSE h]

\* A line of a setting that is not part of the state.
OtherLine == [key |-> "other", text |-> <<>>]

\* config_save: the twelve lines of the file.
config_save(f) ==
    << OtherLine, OtherLine, OtherLine, OtherLine, OtherLine, OtherLine,
       [key |-> "phosphor=", text |-> FormatFix2(f.cfg_phosphor)],
       OtherLine, OtherLine, OtherLine,
       [key |-> "t1_pulse_start=", text |-> FormatInt(f.t1_pulse_start)],
       [key |-> "t1_pulse_end=", text |-> FormatInt(f.t1_pulse_end)] >>

\* Mutant: the window is not validated.
Validate_none(f) == f

\* if (t1_pulse_start >= t1_pulse_end) both are set to the defaults.
Validate(f) ==
    IF f.t1_pulse_start >= f.t1_pulse_end
    THEN [f EXCEPT !.t1_pulse_start = DEF_T1_START, !.t1_pulse_end = DEF_T1_END]
    ELSE f

\* The body of the fgets loop of config_load for one line.
LoadLine(f, ln) ==
    LET iv == ScanInt(ln.text)
        fv == ScanFix2(ln.text)
        f1 == IF ln.key = "phosphor=" /\ fv.n = 1 /\ fv.v >= 0 /\ fv.v <= 100
              THEN [f EXCEPT !.cfg_phosphor = fv.v] ELSE f
        f2 == IF ln.key = "t1_pulse_start=" /\ iv.n = 1 /\ iv.v >= 0 /\ iv.v < 1000
              THEN [f1 EXCEPT !.t1_pulse_start = iv.v] ELSE f1
        f3 == IF ln.key = "t1_pulse_end=" /\ iv.n = 1 /\ iv.v >= 0 /\ iv.v < 2000
              THEN [f2 EXCEPT !.t1_pulse_end = iv.v] ELSE f2
    IN Validate(f3)

\* config_load: the lines in file order; no file, no change.
RECURSIVE config_load(_, _)
config_load(f, lines) ==
    IF lines = <<>> THEN f
    ELSE config_load(LoadLine(f, Head(lines)), Tail(lines))

MaxIniLines == 2
IniNums == {-1, 0, 100, 200, 400, 500, 900, 999, 1000, 1999, 2000}

\* Texts after the '=' of a line: numbers as printf writes them, nothing,
\* no number, a number followed by another character.
IniTexts ==
    {FormatInt(n) : n \in IniNums} \cup {<<>>, <<"x">>, <<"5", "0", "x">>}

\* The lines of a file somebody has written or edited.
IniLines ==
    {[key |-> k, text |-> t] : k \in {"t1_pulse_start=", "t1_pulse_end="},
                               t \in IniTexts}
    \cup {[key |-> "phosphor=", text |-> t] :
             t \in {FormatFix2(45), FormatFix2(100), FormatFix2(101), <<"0", ".", "9">>}}
    \cup {OtherLine}

RECURSIVE SeqsUpTo(_, _)
SeqsUpTo(S, n) ==
    IF n = 0 THEN {<<>>}
    ELSE LET P == SeqsUpTo(S, n - 1)
         IN P \cup {Append(p, x) : p \in {q \in P : Len(q) = n - 1}, x \in S}

\* main starts: av_init has run, and advision.ini is missing or holds any
\* lines.
InitIni ==
    /\ snd = cop411_init /\ adev = FALSE
    /\ lock = "free" /\ ppc = "idle" /\ pval = 0 /\ cpc = "idle"
    /\ cpu = I8048Init /\ rom = <<>> /\ file = NoFile
    /\ disp = DispInit /\ frm = FrmInit
    /\ hist = HistInit
    /\ ini \in SeqsUpTo(IniLines, MaxIniLines)

\* main: config_load into the machine av_init has set up, at the start of
\* the program ("cfgload") and at its next start after an exit that has
\* written the file ("cfgreload").
ConfigLoad ==
    /\ hist.op \in {"init", "cfgsave"}
    /\ frm' = config_load(FrmInit, ini)
    /\ hist' = [hist EXCEPT !.op = IF hist.op = "cfgsave" THEN "cfgreload"
                                   ELSE "cfgload"]
    /\ UNCHANGED <<snd, adev, lock, ppc, pval, cpc, cpu, rom, file, ini, disp>>

\* main: config_save on a clean exit.
ConfigSave ==
    /\ hist.op \in {"cfgload", "cfgreload"}
    /\ ini' = config_save(frm)
    /\ hist' = [hist EXCEPT !.op = "cfgsave", !.before = Before]
    /\ UNCHANGED <<snd, adev, lock, ppc, pval, cpc, cpu, rom, file, disp, frm>>

NextIni == ConfigLoad \/ ConfigSave

SpecIni == InitIni /\ [][NextIni]_vars

\* The window config_load has after the first k lines of the file.
WindowAfter(k) ==
    LET f == config_load(FrmInit, SubSeq(ini, 1, k))
    IN <<f.t1_pulse_start, f.t1_pulse_end>>

\* The value line k assigns to the setting key, or old if it assigns none.
Assigned(k, key, limit, old) ==
    LET iv == ScanInt(ini[k].text)
    IN IF ini[k].key = key /\ iv.n = 1 /\ iv.v >= 0 /\ iv.v < limit
       THEN iv.v ELSE old

\* C31: the T1 window always has start < end, whatever lines the file
\* holds in whatever order, and a line that leaves start >= end sets both
\* values to the defaults 200 and 400.
C31_WindowValid ==
    /\ frm.t1_pulse_start < frm.t1_pulse_end
    /\ hist.op \in {"cfgload", "cfgreload"} =>
         /\ <<frm.t1_pulse_start, frm.t1_pulse_end>> = WindowAfter(Len(ini))
         /\ \A k \in 1..Len(ini) :
               LET s == Assigned(k, "t1_pulse_start=", 1000, WindowAfter(k - 1)[1])
                   e == Assigned(k, "t1_pulse_end=", 2000, WindowAfter(k - 1)[2])
               IN WindowAfter(k) = IF s >= e
                                   THEN <<DEF_T1_START, DEF_T1_END>>
                                   ELSE <<s, e>>

\* A file whose only line is t1_pulse_start=500 has been loaded: 500 is
\* not below the end 400 and the window is the default one.
C31_Witness ==
    /\ hist.op = "cfgload"
    /\ ini = <<[key |-> "t1_pulse_start=", text |-> <<"5", "0", "0">>]>>
    /\ frm.t1_pulse_start = DEF_T1_START /\ frm.t1_pulse_end = DEF_T1_END

\* C39: a valid window (0 <= start < end, start < 1000, end < 2000) that
\* config_save has written is the window config_load reads back into a
\* machine holding the defaults.
C39_WindowRoundTrip ==
    (/\ hist.op = "cfgreload"
     /\ hist.before.frm.t1_pulse_start >= 0
     /\ hist.before.frm.t1_pulse_start < hist.before.frm.t1_pulse_end
     /\ hist.before.frm.t1_pulse_start < 1000
     /\ hist.before.frm.t1_pulse_end < 2000) =>
        /\ frm.t1_pulse_start = hist.before.frm.t1_pulse_start
        /\ frm.t1_pulse_end = hist.before.frm.t1_pulse_end

(***************************************************************************)
(* SpecJmp: JMP and CALL of every page, with SEL MB0, SEL MB1 and RET      *)
(* between them, the operand byte drawn from JmpArgs.                      *)
(***************************************************************************)
JmpOps  == {op \in 0..255 : op % 32 \in {4, 20}} \cup {229, 245, 131}
JmpArgs == {0, 16, 255}

NextJmp == \E op \in JmpOps, arg \in JmpArgs : PcExec(op, arg, 254, 207)

SpecJmp == InitPc /\ [][NextJmp]_vars

\* C32: JMP and CALL set PC to ((opcode & 0xE0) << 3) | imm8 with bit 11
\* set exactly when MB is set (JMP 0x010 with MB clear lands at 0x010, JMP
\* 0x200 with MB set at 0xA00); CALL also pushes the address of the
\* instruction that follows it.  When the timer's interrupt is dispatched
\* at the end of the instruction, the destination is what the dispatch
\* pushes.
C32_JmpCall ==
    [][ (hist'.op = "exec" /\ hist'.val % 32 \in {4, 20}) =>
          LET op   == hist'.val
              dest == (op \div 32) * 256 + hist'.arg
                      + (IF cpu.MB THEN 2048 ELSE 0)
              sp   == IF hist'.val % 32 = 20 THEN (cpu.SP + 1) % 8 ELSE cpu.SP
              ret  == (cpu.PC + 2) % 4096
          IN /\ (dest \div 2048 = 1) <=> cpu.MB
             /\ (op = 4 /\ hist'.arg = 16 /\ ~cpu.MB) => dest = 16
             /\ (op = 68 /\ hist'.arg = 0 /\ cpu.MB) => dest = 2560
             /\ ~hist'.irq => cpu'.PC = dest /\ cpu'.SP = sp
             /\ hist'.irq =>
                   /\ cpu'.PC = IrqVector /\ cpu'.SP = (sp + 1) % 8
                   /\ cpu'.iram[8 + 2 * sp] = dest % 256
                   /\ cpu'.iram[9 + 2 * sp] % 16 = dest \div 256
             /\ op % 32 = 20 =>
                   /\ cpu'.iram[8 + 2 * cpu.SP] = ret % 256
                   /\ cpu'.iram[9 + 2 * cpu.SP] % 16 = ret \div 256
             /\ op % 32 = 4 /\ ~hist'.irq => cpu'.iram = cpu.iram
      ]_vars

\* JMP 0x200 (opcode 0x44, operand 0x00) executed with MB set has landed
\* at 0xA00.
C32_Witness ==
    /\ hist.op = "exec" /\ hist.val = 68 /\ hist.arg = 0 /\ ~hist.irq
    /\ cpu.MB /\ cpu.PC = 2560

(***************************************************************************)
(* SpecIn: IN A,P1 under every combination of the controller's inputs,     *)
(* with OUTL P1,A changing the port shadow.  av->input is held as the set  *)
(* of inputs that are down.                                                *)
(***************************************************************************)
Inputs == {"b1", "b2", "b3", "b4", "u", "d", "r", "l"}

\* Mutant: button 4 pulls bit 7 only.
ButtonMask_b4(down) ==
    LET e1 == IF "b1" \in down THEN And8(255, 255 - 48) ELSE 255
        e2 == IF "b2" \in down THEN And8(e1, 255 - 80) ELSE e1
        e3 == IF "b3" \in down THEN And8(e2, 255 - 8) ELSE e2
        e4 == IF "b4" \in down THEN And8(e3, 255 - 128) ELSE e3
        e5 == IF "u" \in down THEN And8(e4, 255 - 32) ELSE e4
        e6 == IF "d" \in down THEN And8(e5, 255 - 16) ELSE e5
        e7 == IF "r" \in down THEN And8(e6, 255 - 64) ELSE e6
    IN IF "l" \in down THEN And8(e7, 255 - 128) ELSE e7

\* ext of av_port_read, port 1: 0xFF with the bits of every input that is
\* down cleared.
ButtonMask(down) ==
    LET e1 == IF "b1" \in down THEN And8(255, 255 - 48) ELSE 255
        e2 == IF "b2" \in down THEN And8(e1, 255 - 80) ELSE e1
        e3 == IF "b3" \in down THEN And8(e2, 255 - 8) ELSE e2
        e4 == IF "b4" \in down THEN And8(e3, 255 - 144) ELSE e3
        e5 == IF "u" \in down THEN And8(e4, 255 - 32) ELSE e4
        e6 == IF "d" \in down THEN And8(e5, 255 - 16) ELSE e5
        e7 == IF "r" \in down THEN And8(e6, 255 - 64) ELSE e6
    IN IF "l" \in down THEN And8(e7, 255 - 128) ELSE e7

MaxInExec == 2
InP1Vals  == {251, 255, 167, 0}

\* A CPU that has run code: A loaded, P1 as power-up leaves it or as
\* OUTL P1,A has written it.
InitIn ==
    /\ snd = cop411_init /\ adev = FALSE
    /\ lock = "free" /\ ppc = "idle" /\ pval = 0 /\ cpc = "idle"
    /\ rom = <<>> /\ file = NoFile /\ ini = NoIni
    /\ disp = DispInit
    /\ frm = FrmInit
    /\ hist = HistInit
    /\ \E p1 \in InP1Vals :
         cpu = [I8048Init EXCEPT !.PC = MainBase, !.A = 90, !.P1 = p1,
                                 !.t1 = TRUE]

\* i8048_exec on IN A,P1 (0x09) with the inputs in down held.
ReadP1(down) ==
    /\ hist.nexec < MaxInExec
    /\ cpu' = IrqDispatch(TimerTick(AddCycles(
                 ExecAny(ft(cpu), 9, 0, 0, ButtonMask(down)),
                 OpCyclesAny(9)), OpCyclesAny(9)))
    /\ hist' = [hist EXCEPT !.op = "in", !.val = 9, !.keys = down,
                            !.nexec = @ + 1]
    /\ UNCHANGED <<snd, adev, lock, ppc, pval, cpc, rom, file, ini, disp, frm>>

NextIn ==
    \/ \E down \in SUBSET Inputs : ReadP1(down)
    \/ PcExec(57, 0, 0, 255)

SpecIn == InitIn /\ [][NextIn]_vars

\* The bits each input pulls low on P1.
InputBits ==
    [b1 |-> {4, 5}, b2 |-> {4, 6}, b3 |-> {3}, b4 |-> {4, 7},
     u |-> {5}, d |-> {4}, r |-> {6}, l |-> {7}]

\* C33: IN A,P1 returns the P1 shadow with the bits of every input that is
\* down cleared (button 1: 0x30, button 2: 0x50, button 3: 0x08, button 4:
\* 0x90, up: 0x20, down: 0x10, right: 0x40, left: 0x80), the masks of
\* inputs held together combining by AND; bits 0-2 of the value read are
\* those of the shadow, and the read leaves the shadow as it was.
C33_InP1 ==
    [][ hist'.op = "in" =>
          /\ \A i \in 0..7 :
                BitOf(cpu'.A, i) =
                   IF \E k \in hist'.keys : i \in InputBits[k]
                   THEN 0 ELSE BitOf(cpu.P1, i)
          /\ cpu'.A % 8 = cpu.P1 % 8
          /\ cpu'.P1 = cpu.P1
      ]_vars

\* Button 4 and up held with P1 = 0xFF: the read gives 0x4F.
C33_Witness ==
    /\ hist.op = "in" /\ hist.keys = {"b4", "u"}
    /\ cpu.P1 = 255 /\ cpu.A = 79

(***************************************************************************)
(* SpecDjnz: the program MOV Rr,#n; loop: DJNZ Rr,loop at DjnzBase (the    *)
(* self-test has it at 0 with r = 0, n = 3), run one instruction at a      *)
(* time until PC leaves it.  rom holds the four bytes of the program and   *)
(* hist.at the address of its first byte.                                  *)
(***************************************************************************)
DjnzBases  == {0, 2, 2032, 764}
DjnzCounts == {0, 1, 2, 3, 255}
DjnzRegs   == {0, 7}

InitDjnz ==
    /\ snd = cop411_init /\ adev = FALSE
    /\ lock = "free" /\ ppc = "idle" /\ pval = 0 /\ cpc = "idle"
    /\ file = NoFile /\ ini = NoIni
    /\ disp = DispInit
    /\ frm = FrmInit
    /\ \E base \in DjnzBases, n \in DjnzCounts, r \in DjnzRegs, bs \in BOOLEAN :
         /\ rom = <<184 + r, n, 232 + r, (base + 2) % 256>>
         /\ cpu = [I8048Init EXCEPT !.PC = base, !.BS = bs, !.t1 = TRUE]
         /\ hist = [HistInit EXCEPT !.at = base]

\* i8048_exec on the instruction of the program at PC.
ProgStep ==
    /\ cpu.PC >= hist.at /\ cpu.PC < hist.at + Len(rom) - 1
    /\ LET op  == rom[cpu.PC - hist.at + 1]
           arg == rom[cpu.PC - hist.at + 2]
       IN /\ cpu' = IrqDispatch(TimerTick(AddCycles(
                       ExecAny(ft(cpu), op, arg, 0, 255),
                       OpCyclesAny(op)), OpCyclesAny(op)))
          /\ hist' = [hist EXCEPT !.op = "exec", !.val = op, !.arg = arg,
                                  !.nexec = @ + 1]
    /\ UNCHANGED <<snd, adev, lock, ppc, pval, cpc, rom, file, ini, disp, frm>>

NextProg == ProgStep

SpecDjnz == InitDjnz /\ [][NextProg]_vars

\* The interpreter keeps executing while there is an instruction to execute.
SpecDjnzFair == SpecDjnz /\ WF_vars(NextProg)

\* The DJNZ of the program jumps to itself: it does not lie in the last
\* two bytes of its page.
SelfTarget == (hist.at + 2) \div 256 = (hist.at + 4) \div 256

\* The number of times the loop entered with Rr = n is to run, and the
\* index of Rr in internal RAM.
LoopReps == IF rom[2] = 0 THEN 256 ELSE rom[2]
LoopReg  == (IF cpu.BS THEN 24 ELSE 0) + (rom[3] % 8)

\* C34: DJNZ Rr,addr decrements Rr and then jumps within the page of the
\* next instruction exactly when the result is not zero; the loop
\* DJNZ Rr,loop entered with Rr = n is executed exactly n times (256 times
\* for n = 0) and ends with Rr = 0 and PC past the instruction, so that
\* MOV R0,#3 and the loop take four steps.
C34_Djnz ==
    /\ [][ hist'.val \div 8 = 29 /\ hist'.op = "exec" =>
             /\ cpu'.iram[LoopReg] = (cpu.iram[LoopReg] + 255) % 256
             /\ cpu'.PC = IF cpu'.iram[LoopReg] /= 0
                          THEN (((cpu.PC + 2) % 4096) \div 256) * 256 + hist'.arg
                          ELSE (cpu.PC + 2) % 4096 ]_vars
    /\ [](SelfTarget =>
            /\ cpu.PC \in {hist.at, hist.at + 2, hist.at + 4}
            /\ cpu.PC = hist.at + 2 =>
                  /\ hist.nexec - 1 < LoopReps
                  /\ cpu.iram[LoopReg] = (rom[2] + 256 - (hist.nexec - 1)) % 256
            /\ cpu.PC = hist.at + 4 =>
                  /\ hist.nexec = 1 + LoopReps
                  /\ cpu.iram[LoopReg] = 0
                  /\ rom[2] = 3 => hist.nexec = 4)
    /\ (SelfTarget => <>(cpu.PC = hist.at + 4))

\* The self-test's program has ended: base 0, R0, n = 3, four steps.
C34_Witness ==
    /\ hist.at = 0 /\ rom = <<184, 3, 232, 2>> /\ ~cpu.BS
    /\ cpu.PC = 4 /\ cpu.iram[0] = 0 /\ hist.nexec = 4

(***************************************************************************)
(* SpecBcd: the program ADD A,#b; DA A; NOP at 0 (the self-test has it     *)
(* with A = 0x39, b = 0x28), entered with C clear and A = a, for all       *)
(* packed-BCD bytes a and b.  hist.before keeps the CPU the program found. *)
(***************************************************************************)
\* The packed-BCD byte of n in 0..99, and the number a packed-BCD byte holds.
Bcd(n)   == (n \div 10) * 16 + (n % 10)
UnBcd(x) == (x \div 16) * 10 + (x % 16)

MaxBcd == 99

InitBcd ==
    /\ snd = cop411_init /\ adev = FALSE
    /\ lock = "free" /\ ppc = "idle" /\ pval = 0 /\ cpc = "idle"
    /\ file = NoFile /\ ini = NoIni
    /\ disp = DispInit
    /\ frm = FrmInit
    /\ \E a \in 0..MaxBcd, b \in 0..MaxBcd :
         /\ rom = <<3, Bcd(b % 100), 87, 0>>
         /\ cpu = [I8048Init EXCEPT !.A = Bcd(a % 100), !.t1 = TRUE]
         /\ hist = [HistInit EXCEPT !.at = 0, !.before = [cpu |-> cpu]]

SpecBcd == InitBcd /\ [][NextProg]_vars

\* C35: ADD A,#b on A = a with C clear, then DA A, a and b packed BCD,
\* leaves the packed BCD of (a + b) mod 100 in A and C set exactly when
\* a + b >= 100 (0x39 + 0x28 gives 0x67); DA A adjusts on AC as on C and
\* leaves a carry that is set as it is.
C35_BcdAdd ==
    /\ [](cpu.PC = 3 =>
            LET a == UnBcd(hist.before.cpu.A)
                b == UnBcd(rom[2])
            IN /\ cpu.A = Bcd((a + b) % 100)
               /\ cpu.C <=> a + b >= 100
               /\ (hist.before.cpu.A = 57 /\ rom[2] = 40) => cpu.A = 103)
    /\ [][ (hist'.op = "exec" /\ hist'.val = 87) =>
             /\ cpu.C => cpu'.C
             /\ (cpu.AC /\ ~cpu.C /\ cpu.A % 16 <= 9 /\ cpu.A < 154) =>
                    cpu'.A = cpu.A + 6 ]_vars

\* 0x19 + 0x28: the sum 0x41 has AC set and no digit above 9; DA A has
\* made it 0x47.
C35_Witness ==
    /\ cpu.PC = 3 /\ hist.before.cpu.A = 25 /\ rom[2] = 40
    /\ cpu.A = 71 /\ ~cpu.C

(***************************************************************************)
(* SpecT1: frame steps under the T1 windows a configuration file can set,  *)
(* the program an arbitrary stream of one- and two-cycle instructions that *)
(* write no port, the mid-frame scan switched off at the keyboard.  Once   *)
(* the window is behind and T1 is high, the rest of the frame is taken in  *)
(* one step.                                                               *)
(***************************************************************************)
T1Windows ==
    {<<200, 400>>, <<0, 1>>, <<0, 2>>, <<0, 3>>, <<1, 2>>, <<1, 3>>,
     <<5, 6>>, <<5, 7>>, <<400, 401>>}

\* A file that sets the window w: the start first when it lies below the
\* default end, else the end first, so that no line is reset.
WindowFile(w) ==
    LET s == [key |-> "t1_pulse_start=", text |-> FormatInt(w[1])]
        e == [key |-> "t1_pulse_end=", text |-> FormatInt(w[2])]
    IN  IF w[1] < DEF_T1_END THEN <<s, e>> ELSE <<e, s>>

\* Power-up with advision.ini setting a window (av_init, config_load) and
\* the mid-frame scan toggled off.
InitT1 ==
    /\ snd = cop411_init /\ adev = FALSE
    /\ lock = "free" /\ ppc = "idle" /\ pval = 0 /\ cpc = "idle"
    /\ cpu = I8048Init /\ rom = <<>> /\ file = NoFile
    /\ disp = DispInit
    /\ hist = HistInit
    /\ \E w \in T1Windows :
         /\ ini = WindowFile(w)
         /\ frm = [config_load(FrmInit, ini) EXCEPT !.midframe_scan = FALSE]

\* No edge of T1 and no capture can happen before the loop ends: the
\* window is behind, T1 is high and the mid-frame scan is off.
QuietT1 ==
    /\ frm.fpc = "loop" /\ frm.elapsed < CYCLES_PER_FR
    /\ cpu.t1 /\ frm.elapsed >= frm.t1_pulse_end
    /\ ~frm.midframe_scan

\* One iteration of the loop of av_run_frame around an instruction of cy
\* cycles.
T1Instr(cy) ==
    /\ frm.fpc = "loop"
    /\ frm.elapsed < CYCLES_PER_FR
    /\ ~QuietT1
    /\ LET r == FrameBody(frm, disp, ExecOther(cpu, cy), cy) IN
         /\ frm' = r.frm
         /\ disp' = r.disp
         /\ cpu' = r.cpu
         /\ hist' = [HistFrame(hist, r, disp, disp.led_col, "instr", cy) EXCEPT
                        !.nlow = IF ~r.cpu.t1 /\ (cpu.t1 \/ frm.elapsed = 0)
                                 THEN @ + 1 ELSE @,
                        !.nrise = IF ~cpu.t1 /\ r.cpu.t1 THEN @ + 1 ELSE @]
    /\ UNCHANGED <<snd, adev, lock, ppc, pval, cpc, rom, file, ini>>

\* The instructions that fill the rest of the frame.
T1Quiet ==
    /\ QuietT1
    /\ \E over \in {0, 1} :
         /\ frm' = [frm EXCEPT !.elapsed = CYCLES_PER_FR + over]
         /\ cpu' = [cpu EXCEPT !.cycles = @ + (CYCLES_PER_FR + over - frm.elapsed)]
    /\ hist' = [hist EXCEPT !.op = "quiet", !.val = 0]
    /\ UNCHANGED <<snd, adev, lock, ppc, pval, cpc, rom, file, ini, disp>>

NextT1 ==
    \/ FrameBegin
    \/ \E cy \in {1, 2} : T1Instr(cy)
    \/ T1Quiet
    \/ FrameEnd

SpecT1 == InitT1 /\ [][NextT1]_vars

\* C36: for every window with t1_start < t1_end and every stream of one-
\* and two-cycle instructions, each frame step shows T1 low at an
\* instruction boundary: when the step returns, every frame run so far
\* has shown T1 low, a low-to-high edge has followed, and T1 is high.
C36_PulseSeen ==
    (frm.fpc = "idle" /\ hist.nfr > 0) =>
        /\ hist.nlow = hist.nfr
        /\ hist.nrise >= hist.nfr
        /\ cpu.t1

\* The same for the windows at least two cycles wide that do not lie
\* within the first instruction.
C36_WidePulseSeen ==
    (frm.t1_pulse_end - frm.t1_pulse_start >= 2 /\ frm.t1_pulse_end >= 3)
        => C36_PulseSeen

(***************************************************************************)
(* SpecP2: the instructions that write port 2, run from power-up, around   *)
(* the R key and the savestate keys.                                       *)
(***************************************************************************)
\* MOV A,#data; OUTL P2,A; ANL P2,#data; ORL P2,#data.
P2Ops == {35, 58, 154, 138}
P2WriteOps == {58, 154, 138}
P2Args == {0, 16, 239, 255}

InitP2 ==
    /\ snd = cop411_init /\ adev = FALSE
    /\ lock = "free" /\ ppc = "idle" /\ pval = 0 /\ cpc = "idle"
    /\ cpu = [I8048Init EXCEPT !.t1 = TRUE]
    /\ rom = <<>> /\ file = NoFile /\ ini = NoIni
    /\ disp = DispInit
    /\ frm = FrmInit
    /\ hist = HistInit

NextP2 ==
    \/ \E op \in P2Ops, arg \in P2Args : PcExec(op, arg, 254, 207)
    \/ Reset
    \/ Save
    \/ Load

SpecP2 == InitP2 /\ [][NextP2]_vars

\* C37: at every write to port 2 the value the P2.4 edge detector
\* remembers is the P2 shadow as it stood before the write, so the write
\* commits a column only if bit 4 of the shadow was 0 before it; from
\* power-up, after av_reset and after load_state too.
C37_PrevIsShadow ==
    [][ (hist'.op = "exec" /\ hist'.val \in P2WriteOps) =>
            /\ frm.prev_p2 = cpu.P2
            /\ (disp' /= disp) => ~P24(cpu.P2) ]_vars

(***************************************************************************)
(* SpecResume: an effect is started, plays for some callbacks and is saved *)
(* with F5; the emulator is started again and the file loaded with F7 into *)
(* the machine av_init leaves.  hist.ref is the engine of the machine that *)
(* was saved, generating the same number of samples from then on.          *)
(***************************************************************************)
MaxResumeCb == 48

\* Control bytes (fast; fast and loop) and effects 1, 3, 6 and 10.
ResumeCtrl == {1, 9}
ResumeCmds == {16, 48, 96, 160}

InitResume ==
    /\ \E k \in ResumeCtrl, b \in ResumeCmds :
         snd = cop411_command(cop411_command(cop411_init, k), b)
    /\ adev = TRUE
    /\ lock = "free" /\ ppc = "idle" /\ pval = 0 /\ cpc = "idle"
    /\ cpu = [I8048Init EXCEPT !.t1 = TRUE]
    /\ rom = <<147>> /\ file = NoFile /\ ini = NoIni
    /\ disp = DispInit
    /\ frm = FrmInit
    /\ hist = HistInit

\* The sound has been loaded from the file.
Resumed == hist.op \in {"load", "resumed"}

\* audio_cb, and the same callback in the machine that was saved.
ResumeCb ==
    /\ adev
    /\ hist.ncb < MaxResumeCb
    /\ hist.op /= "save"
    /\ snd' = RunSamples(snd, AUDIO_SAMPLES, 0)[1]
    /\ hist' = [hist EXCEPT
                  !.op = IF Resumed THEN "resumed" ELSE "cb",
                  !.ncb = @ + 1,
                  !.ref = IF Resumed THEN RunSamples(@, AUDIO_SAMPLES, 0)[1]
                          ELSE @]
    /\ UNCHANGED <<adev, lock, ppc, pval, cpc, cpu, rom, file, ini, disp, frm>>

\* A new process: av_init, the same ROM, then F7: load_state under the
\* audio lock.
FreshLoad ==
    /\ hist.op = "save"
    /\ LET r == load_state(I8048Init, cop411_init, file) IN
         /\ cpu' = r.cpu
         /\ snd' = r.snd
         /\ hist' = [hist EXCEPT !.op = "load", !.ok = r.ok,
                                 !.before = Before, !.ref = snd]
    /\ disp' = DispInit
    /\ frm' = FrmInit
    /\ UNCHANGED <<adev, lock, ppc, pval, cpc, rom, file, ini>>

NextResume ==
    \/ ResumeCb
    \/ Save
    \/ FreshLoad

SpecResume == InitResume /\ [][NextResume]_vars

\* What the samples of engine s are made from: nothing when it is
\* inactive, else the waveform kind, the frequency and the volume.
Audible(s) ==
    IF s.active
    THEN [active |-> TRUE, is_noise |-> s.is_noise,
          cur_freq |-> s.cur_freq, cur_vol |-> s.cur_vol]
    ELSE [active |-> FALSE, is_noise |-> FALSE, cur_freq |-> 0, cur_vol |-> 0]

\* C38: after a save and a load into a freshly initialised machine the
\* sound goes on as that of the saved machine would have: callback for
\* callback the same samples, and the same outcome at the end of the
\* effect (loop, chain or stop).
C38_ResumeSame ==
    Resumed => hist.ok /\ Audible(snd) = Audible(hist.ref)

(***************************************************************************)
(* SpecRewind: the rewind ring under the frame step's push and the F8      *)
(* key's four pops, each under the audio lock, with the audio thread       *)
(* running callbacks in between.  Every frame runs the same short program, *)
(* which changes A, the carry, R0, a byte of internal RAM and a byte of    *)
(* video RAM in column 0; the scan captures that column.  hist.stack is    *)
(* the stack of the snapshots taken: a push puts one on top and drops the  *)
(* oldest beyond REWIND_FRAMES, a pop that succeeds takes the top off.     *)
(***************************************************************************)
MaxRwFrames == 122
MaxRwKeys   == 1

\* The frames after which F8 is pressed: ring empty, shorter than four,
\* longer, one below full, full, and wrapped.
RwPoints == {0, 1, 3, 6, 119, 120, 121, 122}

\* ANL P1,#0xFD; ADD A,#100; MOV R0,#8; MOVX @R0,A; MOV @R0,A.
RwProgram == <<<<153, 253>>, <<3, 100>>, <<184, 8>>, <<144, 0>>, <<160, 0>>>>

\* i8048_exec on the instructions of prog from the k-th on.
RECURSIVE RunProgram(_, _, _)
RunProgram(c, prog, k) ==
    IF k > Len(prog) THEN c
    ELSE RunProgram(AddCycles(ExecAny(ft(c), prog[k][1], prog[k][2], 0, 255),
                              OpCyclesAny(prog[k][1])),
                    prog, k + 1)

\* Power-up, with or without a rewind buffer (calloc may fail), effect 1
\* playing.
InitRewind ==
    /\ snd = cop411_command(cop411_init, 16)
    /\ adev = TRUE
    /\ lock = "free" /\ ppc = "idle" /\ pval = 0 /\ cpc = "idle"
    /\ cpu = [I8048Init EXCEPT !.t1 = TRUE]
    /\ rom = <<>> /\ file = NoFile /\ ini = NoIni
    /\ disp = DispInit
    /\ \E al \in BOOLEAN : frm = [FrmInit EXCEPT !.rewind_alloc = al]
    /\ hist = [HistInit EXCEPT !.ref = Shared(snd)]

\* av_run_frame up to the return of AUDIO_LOCK: the program, the capture
\* of column 0, disp_update, frame_count++.
RwFrame ==
    /\ ppc = "idle"
    /\ hist.nfr < MaxRwFrames
    /\ MayLock(adev, lock)
    /\ LET c1 == RunProgram(cpu, RwProgram, 1)
           d1 == disp_capture_column(FrameHeadDisp(disp), c1.xram, 0)
           r  == FrameTail(FrameHead(frm), d1, c1.xram)
       IN /\ cpu' = c1
          /\ disp' = r.disp
          /\ frm' = r.frm
    /\ lock' = IF adev THEN "prod" ELSE lock
    /\ ppc' = "push"
    /\ hist' = [hist EXCEPT !.op = "frame", !.nfr = @ + 1]
    /\ UNCHANGED <<snd, adev, pval, cpc, rom, file, ini>>

\* rewind_push(av).
RwPush ==
    /\ ppc = "push"
    /\ frm' = rewind_push(frm, cpu, disp, snd)
    /\ ppc' = "unlock"
    /\ hist' = [hist EXCEPT
                  !.op = "push",
                  !.stack = LET q == Append(@, RewindSnap(cpu, disp, snd))
                            IN IF Len(q) > REWIND_FRAMES THEN Tail(q) ELSE q]
    /\ UNCHANGED <<snd, adev, lock, pval, cpc, cpu, rom, file, ini, disp>>

\* F8 up to the return of AUDIO_LOCK.
RwKey ==
    /\ ppc = "idle"
    /\ hist.nrw < MaxRwKeys
    /\ hist.nfr \in RwPoints
    /\ MayLock(adev, lock)
    /\ lock' = IF adev THEN "prod" ELSE lock
    /\ ppc' = "pop"
    /\ pval' = 4
    /\ hist' = [hist EXCEPT !.op = "key", !.nrw = @ + 1]
    /\ UNCHANGED <<snd, adev, cpc, cpu, rom, file, ini, disp, frm>>

\* One of the four rewind_pop(&av) calls of the F8 handler.
RwPop ==
    /\ ppc = "pop"
    /\ LET r == rewind_pop(frm, cpu, disp, snd) IN
         /\ frm' = r.frm /\ cpu' = r.cpu /\ disp' = r.disp /\ snd' = r.snd
         /\ hist' = [hist EXCEPT
                       !.op = "pop", !.ok = r.ok,
                       !.before = [cpu |-> cpu, disp |-> disp],
                       !.ref = IF r.ok THEN Shared(r.snd) ELSE @,
                       !.stack = IF r.ok THEN SubSeq(@, 1, Len(@) - 1) ELSE @]
    /\ pval' = pval - 1
    /\ ppc' = IF pval = 1 THEN "unlock" ELSE "pop"
    /\ UNCHANGED <<adev, lock, cpc, rom, file, ini>>

\* AUDIO_UNLOCK after the push or after the four pops.
RwUnlock ==
    /\ ppc = "unlock"
    /\ lock' = IF adev THEN "free" ELSE lock
    /\ ppc' = "idle"
    /\ hist' = [hist EXCEPT !.op = "unlock"]
    /\ UNCHANGED <<snd, adev, pval, cpc, cpu, rom, file, ini, disp, frm>>

NextRewind ==
    \/ RwFrame
    \/ RwPush
    \/ RwKey
    \/ RwPop
    \/ RwUnlock
    \/ CbLock
    \/ CbBody
    \/ CbUnlock

SpecRewind == InitRewind /\ [][NextRewind]_vars

\* The ring's bookkeeping and, with a buffer, its contents.
RingOf(f) == <<f.rewind_buf, f.rewind_head, f.rewind_count>>

\* CPU c, display d hold what snapshot sn recorded: the registers, the
\* flags, internal and external RAM and the phosphor buffer.
RestoredFrom(c, d, sn) ==
    /\ c.A = sn.A /\ c.PC = sn.PC /\ c.PSW = sn.PSW /\ c.SP = sn.SP
    /\ c.P1 = sn.P1 /\ c.P2 = sn.P2 /\ c.BUS = sn.BUS
    /\ c.timer = sn.timer /\ c.tpre = sn.tpre
    /\ PackFlags(c) = sn.flags /\ PackFlags2(c) = sn.flags2
    /\ c.iram = sn.iram /\ c.xram = sn.xram
    /\ d.phosphor = sn.phosphor

=============================================================================
